---- MODULE Spec2Model ----
(***************************************************************************)
(* CovidWatch: the authentication and request-authorization pipeline.      *)
(*                                                                         *)
(* The model follows the server code: app.js (the global middleware),      *)
(* middleware/security.js (rate limiters, rejectUnexpectedFields),         *)
(* middleware/validation.js (the express-validator schemas),               *)
(* routes/users.js (login, logout, signup, check_in) and                   *)
(* routes/index.js (requireRole, addmarkers).                              *)
(*                                                                         *)
(* A request is a record in a slot.  Its middleware runs in the step that   *)
(* receives it, and every callback of its handler is one step, so that     *)
(* requests interleave where Node's event loop lets them interleave.       *)
(***************************************************************************)
EXTENDS Integers, Sequences, FiniteSets, TLC

(***************************************************************************)
(* Bounds of the model.                                                    *)
(***************************************************************************)
\* requests received in one behaviour
MaxRequests == 2
\* distinct salts bcrypt can draw
MaxSalt == 2
\* the requests one client sends to a rate limited route
MaxHits == 7
\* the steps of the clock, and how many of them make up a limiter's window
MaxTicks == 7
MaxRows == 3
TicksPerWindow == 3

(***************************************************************************)
(* Strings.  A string is the sequence of its characters, so that length    *)
(* bounds, trim and the anchored character-class patterns are computed.    *)
(***************************************************************************)
Lower == {"a","b","c","d","e","f","g","h","i","j","k","l","m",
          "n","o","p","q","r","s","t","u","v","w","x","y","z"}
Upper == {"A","B","C","D","E","F","G","H","I","J","K","L","M",
          "N","O","P","Q","R","S","T","U","V","W","X","Y","Z"}
Digit == {"0","1","2","3","4","5","6","7","8","9"}
\* /^[a-zA-Z0-9_]+$/
WordChars == Lower \cup Upper \cup Digit \cup {"_"}
\* /^[a-zA-Z0-9]+$/
AlnumChars == Lower \cup Upper \cup Digit

\* String.prototype.trim
RECURSIVE TrimLeft(_)
TrimLeft(s) == IF s # <<>> /\ Head(s) = " " THEN TrimLeft(Tail(s)) ELSE s
RECURSIVE TrimRight(_)
TrimRight(s) ==
    IF s # <<>> /\ s[Len(s)] = " " THEN TrimRight(SubSeq(s, 1, Len(s) - 1)) ELSE s
trim(s) == TrimRight(TrimLeft(s))

\* validator.matches(s, /^[class]+$/)
matchesAll(s, class) == Len(s) >= 1 /\ \A i \in 1..Len(s) : s[i] \in class
\* validator.matches(s, /[class]/)
matchesSome(s, class) == \E i \in 1..Len(s) : s[i] \in class
\* validator.isLength(s, {min, max})
isLength(s, min, max) == Len(s) >= min /\ Len(s) <= max

(***************************************************************************)
(* The user table and the two password-hash schemes.                       *)
(***************************************************************************)
Bob == <<"b","o","b">>
Jen == <<"j","e","n">>
Eve == <<"e","v","e">>
BobPw == <<"B","o","b","T","h","e","9","6">>
JenPw == <<"P","l","a","n","e","t","4","8">>

\* users.js:26
BCRYPT_ROUNDS == 12

Salts == 1..MaxSalt

\* MySQL SHA2(p, 256): a digest without salt, the legacy scheme
SHA2(p) == [scheme |-> "sha256", rounds |-> 0, salt |-> 0, digest |-> p]
\* bcrypt.hash(p, rounds), the salt drawn by the library
bcryptHash(p, rounds, salt) == [scheme |-> "$2b", rounds |-> rounds, salt |-> salt, digest |-> p]
\* bcrypt.compare(p, h)
bcryptCompare(p, h) == h.scheme = "$2b" /\ h.digest = p
\* storedHash && storedHash.startsWith('$2')
isBcryptHash(h) == h.scheme = "$2b"
\* the column holding a password as it was typed, with no scheme
Plain(p) == [scheme |-> "", rounds |-> 0, salt |-> 0, digest |-> p]
NoHash == [scheme |-> "", rounds |-> 0, salt |-> 0, digest |-> <<>>]

BobMail == <<"b","@","x",".","i","o">>
JenMail == <<"j","@","x",".","i","o">>
EveMail == <<"E","@","x",".","i","o">>
Brice == <<"B","r","i","c","e">>

\* the rows the database is seeded with, their passwords in the legacy scheme
SeedUsers ==
    { [u_id |-> 1, given_name |-> Bob, family_name |-> Brice, username |-> Bob,
       password |-> SHA2(BobPw), email_address |-> BobMail, user_type |-> "user"],
      [u_id |-> 2, given_name |-> Jen, family_name |-> Brice, username |-> Jen,
       password |-> SHA2(JenPw), email_address |-> JenMail, user_type |-> "manager"] }

NoRow == [u_id |-> 0, given_name |-> <<>>, family_name |-> <<>>, username |-> <<>>,
          password |-> NoHash, email_address |-> <<>>, user_type |-> ""]

\* the session snapshot written at login: the row without its password
SessionUser(row) ==
    [u_id |-> row.u_id, given_name |-> row.given_name, family_name |-> row.family_name,
     username |-> row.username, email_address |-> row.email_address,
     user_type |-> row.user_type]
\* req.session.user is undefined
NoUser == [u_id |-> 0, given_name |-> <<>>, family_name |-> <<>>, username |-> <<>>,
           email_address |-> <<>>, user_type |-> ""]

(***************************************************************************)
(* Request bodies.  A body is a record of the fields the client sent.      *)
(* Text fields are strings; date and time values carry what the rules      *)
(* read off them; coordinates are whole degrees.                           *)
(***************************************************************************)
\* fields whose values are strings of characters
TextFields == {"user", "pass", "email", "given_name", "family_name", "check_in",
               "username"}

\* a date string: fmt = it matches /^\d{4}-\d{1,2}-\d{1,2}$/, valid = new Date()
\* parses it, off = hours from the server's clock to the parsed instant
DateValue(fmt, valid, off) == [fmt |-> fmt, valid |-> valid, off |-> off]
\* a time string: fmt = it matches /^\d{1,2}:\d{2}:\d{2}$/, h:m:s its parts
TimeValue(fmt, h, m, s) == [fmt |-> fmt, h |-> h, m |-> m, s |-> s]

Has(body, f) == f \in DOMAIN body

\* security.js sanitizeInputs: every string value is trimmed
sanitizeInputs(body) ==
    [f \in DOMAIN body |-> IF f \in TextFields THEN trim(body[f]) ELSE body[f]]

(***************************************************************************)
(* validation.js.  A chain runs every validator in declared order (no      *)
(* bail), each failing validator adding one entry to the error list.       *)
(***************************************************************************)
Err(failed, f, m) == IF failed THEN <<[field |-> f, message |-> m]>> ELSE <<>>

\* the text value a chain reads: '' when the field is absent
Text(body, f) == IF Has(body, f) THEN body[f] ELSE <<>>
\* exists({ checkFalsy: true }) on a text field
existsTruthy(body, f) == Has(body, f) /\ body[f] # <<>>

usernameRule(body) ==
    LET v == trim(Text(body, "user")) IN
       Err(~existsTruthy(body, "user"), "user", "Username is required")
    \o Err(~Has(body, "user"), "user", "Username must be a string")
    \o Err(~isLength(v, 3, 30), "user", "Username must be 3-30 characters")
    \o Err(~matchesAll(v, WordChars), "user",
           "Username can only contain letters, numbers, and underscores")

loginPassRule(body) ==
    LET v == Text(body, "pass") IN
       Err(~existsTruthy(body, "pass"), "pass", "Password is required")
    \o Err(~Has(body, "pass"), "pass", "Password must be a string")
    \o Err(~isLength(v, 1, 100), "pass", "Password is required")

loginValidation(body) == usernameRule(body) \o loginPassRule(body)

\* /[a-z]/, /[A-Z]/, /[0-9]/ and the length bound on a new password
signupPassRule(body) ==
    LET v == Text(body, "pass") IN
       Err(~existsTruthy(body, "pass"), "pass", "Password is required")
    \o Err(~Has(body, "pass"), "pass", "Password must be a string")
    \o Err(~isLength(v, 8, 100), "pass", "Password must be at least 8 characters")
    \o Err(~matchesSome(v, Lower), "pass",
           "Password must contain at least one lowercase letter")
    \o Err(~matchesSome(v, Upper), "pass",
           "Password must contain at least one uppercase letter")
    \o Err(~matchesSome(v, Digit), "pass", "Password must contain at least one number")

\* validator.isEmail: one "@", a local part, a domain of dot-separated labels
isEmail(s) ==
    \E at \in 2..(Len(s) - 1) :
       /\ s[at] = "@"
       /\ \A i \in 1..Len(s) : s[i] = "@" => i = at
       /\ \A i \in 1..(at - 1) : s[i] \in WordChars \cup {".", "-", "+"}
       /\ \A i \in (at + 1)..Len(s) : s[i] \in AlnumChars \cup {".", "-"}
       /\ \E dot \in (at + 2)..(Len(s) - 2) : s[dot] = "."
       /\ s[at + 1] # "." /\ s[Len(s)] # "."

LowerOf ==
    [c \in Upper |->
       CASE c = "A" -> "a" [] c = "B" -> "b" [] c = "C" -> "c" [] c = "D" -> "d"
         [] c = "E" -> "e" [] c = "F" -> "f" [] c = "G" -> "g" [] c = "H" -> "h"
         [] c = "I" -> "i" [] c = "J" -> "j" [] c = "K" -> "k" [] c = "L" -> "l"
         [] c = "M" -> "m" [] c = "N" -> "n" [] c = "O" -> "o" [] c = "P" -> "p"
         [] c = "Q" -> "q" [] c = "R" -> "r" [] c = "S" -> "s" [] c = "T" -> "t"
         [] c = "U" -> "u" [] c = "V" -> "v" [] c = "W" -> "w" [] c = "X" -> "x"
         [] c = "Y" -> "y" [] c = "Z" -> "z"]

\* validator.normalizeEmail: the address in lower case
normalizeEmail(s) == [i \in 1..Len(s) |-> IF s[i] \in Upper THEN LowerOf[s[i]] ELSE s[i]]

emailRule(body) ==
    LET v == trim(Text(body, "email")) IN
       Err(~existsTruthy(body, "email"), "email", "Email is required")
    \o Err(~Has(body, "email"), "email", "Email must be a string")
    \o Err(~isEmail(v), "email", "Invalid email address")
    \o Err(Len(normalizeEmail(v)) > 254, "email", "Email must be less than 254 characters")

\* /^[a-zA-Z\s\-']+$/
NameChars == Lower \cup Upper \cup {" ", "-", "'"}

nameRule(body, f, label) ==
    LET v == trim(Text(body, f)) IN
       Err(~existsTruthy(body, f), f, label \o " is required")
    \o Err(~Has(body, f), f, label \o " must be a string")
    \o Err(~isLength(v, 1, 50), f, label \o " must be 1-50 characters")
    \o Err(~matchesAll(v, NameChars), f,
           label \o " can only contain letters, spaces, hyphens, and apostrophes")

\* a variant that lets a signup ask for the admin role
SignupTypesWithAdmin == {"user", "manager", "admin"}

\* isIn(['user', 'manager'])
SignupTypes == {"user", "manager"}

typeRule(body) ==
       Err(~(Has(body, "type") /\ body.type # ""), "type", "User type is required")
    \o Err(~Has(body, "type"), "type", "User type must be a string")
    \o Err(~(Has(body, "type") /\ body.type \in SignupTypes), "type",
           "User type must be either \"user\" or \"manager\"")

signupValidation(body) ==
    usernameRule(body) \o signupPassRule(body) \o emailRule(body)
    \o nameRule(body, "given_name", "First name")
    \o nameRule(body, "family_name", "Last name") \o typeRule(body)

checkInCodeRule(body) ==
    LET v == trim(Text(body, "check_in")) IN
       Err(~existsTruthy(body, "check_in"), "check_in", "Check-in code is required")
    \o Err(~Has(body, "check_in"), "check_in", "Check-in code must be a string")
    \o Err(~isLength(v, 4, 10), "check_in", "Check-in code must be 4-10 characters")
    \o Err(~matchesAll(v, AlnumChars), "check_in",
           "Check-in code can only contain letters and numbers")

\* a variant without the check on dates ahead
dateCustomAnyFuture(d) ==
    IF ~d.valid THEN "Invalid date"
    ELSE IF d.off < -(30 * 24) THEN "Date cannot be more than 30 days in the past"
    ELSE "ok"

\* the custom date check, in hours: not after now + 1 day, not before
\* now - 30 days
dateCustom(d) ==
    IF ~d.valid THEN "Invalid date"
    ELSE IF d.off > 1 * 24 THEN "Date cannot be in the future"
    ELSE IF d.off < -(30 * 24) THEN "Date cannot be more than 30 days in the past"
    ELSE "ok"

dateRule(body) ==
    LET present == Has(body, "date")
        d == IF present THEN body.date ELSE DateValue(FALSE, FALSE, 0) IN
       Err(~present, "date", "Date is required")
    \o Err(~present, "date", "Date must be a string")
    \o Err(~d.fmt, "date", "Date must be in YYYY-MM-DD format")
    \o Err(dateCustom(d) # "ok", "date", dateCustom(d))

timeCustom(t) ==
    IF t.h < 0 \/ t.h > 23 \/ t.m < 0 \/ t.m > 59 \/ t.s < 0 \/ t.s > 59
    THEN "Invalid time values" ELSE "ok"

timeRule(body) ==
    LET present == Has(body, "time")
        t == IF present THEN body.time ELSE TimeValue(FALSE, 0, 0, 0) IN
       Err(~present, "time", "Time is required")
    \o Err(~present, "time", "Time must be a string")
    \o Err(~t.fmt, "time", "Time must be in HH:MM:SS format")
    \o Err(present /\ timeCustom(t) # "ok", "time", timeCustom(t))

checkInValidation(body) == checkInCodeRule(body) \o dateRule(body) \o timeRule(body)

\* isFloat({ min, max }) on a coordinate
isFloat(body, f, min, max) == Has(body, f) /\ body[f] >= min /\ body[f] <= max

markerValidation(body) ==
       Err(~Has(body, "long"), "long", "Longitude is required")
    \o Err(~isFloat(body, "long", -180, 180), "long", "Longitude must be between -180 and 180")
    \o Err(~Has(body, "lat"), "lat", "Latitude is required")
    \o Err(~isFloat(body, "lat", -90, 90), "lat", "Latitude must be between -90 and 90")

\* handleValidationErrors: 400 with the error list unless the list is empty
handleValidationErrors(errors) == IF errors # <<>> THEN 400 ELSE 0

(***************************************************************************)
(* security.js rejectUnexpectedFields and the ALLOWED_FIELDS of the routes *)
(***************************************************************************)
\* a variant in which check_in takes the user of the check-in from the body
ALLOWED_FIELDS_WithUser ==
    [login   |-> {"user", "pass"},
     signup  |-> {"user", "pass", "email", "given_name", "family_name", "type"},
     checkIn |-> {"check_in", "date", "time", "user", "username"},
     marker  |-> {"long", "lat"}]

ALLOWED_FIELDS ==
    [login   |-> {"user", "pass"},
     signup  |-> {"user", "pass", "email", "given_name", "family_name", "type"},
     checkIn |-> {"check_in", "date", "time"},
     marker  |-> {"long", "lat"}]

unexpectedFields(allowedFields, body) == DOMAIN body \ allowedFields

\* a variant that rejects a body only when none of its fields is allowed
rejectWhenNoFieldAllowed(allowedFields, body) ==
    IF DOMAIN body # {} /\ DOMAIN body \cap allowedFields = {} THEN 400 ELSE 0

\* 400 when the body holds a field outside allowedFields, else next()
rejectUnexpectedFields(allowedFields, body) ==
    IF unexpectedFields(allowedFields, body) # {} THEN 400 ELSE 0

(***************************************************************************)
(* The authorization guards.                                               *)
(***************************************************************************)
\* a variant that lets every request through
requireAuthOpen(sess) == 0

\* routes/users.js and routes/index.js requireAuth; sess is req.session.user
requireAuth(sess) == IF sess # NoUser THEN 0 ELSE 401

\* a variant that lets a session through when the role set is empty
requireRoleUnlessEmpty(allowedRoles, sess) ==
    IF sess = NoUser THEN 401
    ELSE IF allowedRoles # {} /\ sess.user_type \notin allowedRoles THEN 403
    ELSE 0

\* routes/index.js requireRole(allowedRoles)
requireRole(allowedRoles, sess) ==
    IF sess = NoUser THEN 401
    ELSE IF sess.user_type \notin allowedRoles THEN 403
    ELSE 0

\* a variant that lets every role add markers
MarkerRolesWithUser == {"user", "manager", "admin"}

\* requireRole(['manager', 'admin']) of addmarkers
MarkerRoles == {"manager", "admin"}

(***************************************************************************)
(* security.js: the rate limiters (express-rate-limit, one fixed window    *)
(* per key and limiter).                                                   *)
(***************************************************************************)
\* process.env.NODE_ENV of the running server
NODE_ENV == "production"
\* skip: function(req, res) { return process.env.NODE_ENV === 'test'; }
skip(env) == env = "test"

AuthMax == 5
ApiMax == 100
WriteMax == 30
\* the retryAfter the authLimiter handler writes out
AuthRetryAfter == 900

Classes == {"auth", "api", "write"}

\* Math.ceil(a / b) for positive a, b
Ceil(a, b) == (a + b - 1) \div b

\* the options of rateLimit({...}) for authLimiter, apiLimiter, writeLimiter
Options(class) ==
    CASE class = "auth"  -> [windowMs |-> 15 * 60 * 1000, max |-> AuthMax]
      [] class = "api"   -> [windowMs |-> 15 * 60 * 1000, max |-> ApiMax]
      [] class = "write" -> [windowMs |-> 15 * 60 * 1000, max |-> WriteMax]

\* rateLimitHandler: retryAfter computed from the window
rateLimitHandler(options) ==
    [status |-> 429, error |-> "Too many requests",
     retryAfter |-> Ceil(options.windowMs, 1000)]

\* handler: of authLimiter
authLimitHandler(options) ==
    [status |-> 429, error |-> "Too many authentication attempts",
     retryAfter |-> AuthRetryAfter]

limitHandler(class) ==
    IF class = "auth" THEN authLimitHandler(Options(class))
    ELSE rateLimitHandler(Options(class))

\* getClientKey: ip + ':' + (session user id or 'anonymous')
getClientKey(ip, sess) ==
    ip \o ":" \o (IF sess # NoUser THEN ToString(sess.u_id) ELSE "anonymous")

\* keyGenerator of each limiter
keyGenerator(class, ip, sess) == IF class = "auth" THEN ip ELSE getClientKey(ip, sess)

NoEntry == [totalHits |-> 0, resetTime |-> 0]
EmptyStore == [k \in {} |-> NoEntry]

\* the store's increment: a key without a live window starts one
increment(store, key, t, windowMs) ==
    LET live == key \in DOMAIN store /\ store[key].resetTime > t
        cur  == IF live THEN store[key]
                ELSE [totalHits |-> 0, resetTime |-> t + windowMs]
    IN  [totalHits |-> cur.totalHits + 1, resetTime |-> cur.resetTime]

\* a variant that denies the request that reaches the limit
overLimitAtMax(entry, max) == entry.totalHits >= max

\* the request is over the limit once its own hit is counted
overLimit(entry, max) == entry.totalHits > max

Put(store, key, entry) ==
    [k \in DOMAIN store \cup {key} |-> IF k = key THEN entry ELSE store[k]]

(***************************************************************************)
(* The middleware of each route, app.js's global limiter first.            *)
(***************************************************************************)
Routes == {"login", "logout", "signup", "check_in", "addmarkers"}

\* the routes that read: POST /users/history, GET /username, /email,
\* /mapmarkers, /header
ReadRoutes == {"history", "username", "email", "mapmarkers", "header"}

\* a variant in which check_in is rate limited before it is authenticated
RouteChainLimiterFirst(route) ==
    CASE route = "login"      -> <<"authLimiter", "rejectUnexpectedFields", "validation">>
      [] route = "signup"     -> <<"authLimiter", "rejectUnexpectedFields", "validation">>
      [] route = "check_in"   -> <<"writeLimiter", "requireAuth", "rejectUnexpectedFields",
                                   "validation">>
      [] route = "addmarkers" -> <<"requireAuth", "requireRole", "writeLimiter",
                                   "rejectUnexpectedFields", "validation">>
      [] route = "logout"     -> <<>>
      [] route \in {"history", "username", "email", "mapmarkers"} -> <<"requireAuth">>
      [] route = "header"     -> <<>>

\* a variant in which the routes that read list no authentication check
RouteChainOpenReads(route) ==
    CASE route = "login"      -> <<"authLimiter", "rejectUnexpectedFields", "validation">>
      [] route = "signup"     -> <<"authLimiter", "rejectUnexpectedFields", "validation">>
      [] route = "check_in"   -> <<"requireAuth", "writeLimiter", "rejectUnexpectedFields",
                                   "validation">>
      [] route = "addmarkers" -> <<"requireAuth", "requireRole", "writeLimiter",
                                   "rejectUnexpectedFields", "validation">>
      [] route = "logout"     -> <<>>
      [] route \in {"history", "username", "email", "mapmarkers"} -> <<>>
      [] route = "header"     -> <<>>

\* the middleware each route lists, in the order it lists them
RouteChain(route) ==
    CASE route = "login"      -> <<"authLimiter", "rejectUnexpectedFields", "validation">>
      [] route = "signup"     -> <<"authLimiter", "rejectUnexpectedFields", "validation">>
      [] route = "check_in"   -> <<"requireAuth", "writeLimiter", "rejectUnexpectedFields",
                                   "validation">>
      [] route = "addmarkers" -> <<"requireAuth", "requireRole", "writeLimiter",
                                   "rejectUnexpectedFields", "validation">>
      [] route = "logout"     -> <<>>
      [] route \in {"history", "username", "email", "mapmarkers"} -> <<"requireAuth">>
      [] route = "header"     -> <<>>

Pipeline(route) == <<"apiLimiter">> \o RouteChain(route)

\* a variant in which the three limiters count in one store
LimiterClassShared(stage) == "auth"

LimiterClass(stage) ==
    CASE stage = "apiLimiter"   -> "api"
      [] stage = "authLimiter"  -> "auth"
      [] stage = "writeLimiter" -> "write"

LimiterStages == {"apiLimiter", "authLimiter", "writeLimiter"}

AllowedOf(route) ==
    CASE route = "login"      -> ALLOWED_FIELDS.login
      [] route = "signup"     -> ALLOWED_FIELDS.signup
      [] route = "check_in"   -> ALLOWED_FIELDS.checkIn
      [] route = "addmarkers" -> ALLOWED_FIELDS.marker

ValidationOf(route, body) ==
    CASE route = "login"      -> loginValidation(body)
      [] route = "signup"     -> signupValidation(body)
      [] route = "check_in"   -> checkInValidation(body)
      [] route = "addmarkers" -> markerValidation(body)

\* the .trim() sanitizers of the chains write the trimmed value back
TrimmedFields == {"user", "email", "given_name", "family_name", "check_in"}
validated(body) ==
    [f \in DOMAIN body |->
       IF f = "email" THEN normalizeEmail(trim(body[f]))
       ELSE IF f \in TrimmedFields THEN trim(body[f]) ELSE body[f]]

(***************************************************************************)
(* The state.                                                              *)
(***************************************************************************)
VARIABLES
    user,        \* the user table: a set of rows
    check_ins,   \* the check_ins table: rows in insertion order
    mapmarkers,  \* the mapmarkers table: rows in insertion order
    session,     \* the session store: session id -> req.session.user
    limiter,     \* limiter class -> key -> [totalHits, resetTime]
    now,         \* the server's clock, ms
    req,         \* slot -> the request in it
    arrivals,    \* requests received so far
    rewrites,    \* u_id -> password UPDATEs that succeeded for that user
    hitLog,      \* the limiter's answers to one client, in order
    guard,       \* a session and a role set put to requireRole, and its answer
    xhr          \* the browser page: the XMLHttpRequest of logout() and the redirect

vars == <<user, check_ins, mapmarkers, session, limiter, now, req, arrivals, rewrites,
          hitLog, guard, xhr>>

\* the requests in flight at once
Slots == {1, 2}
Sids == {"s1"}
Ips == {"ip1"}
UserIds == {1, 2, 3}

(***************************************************************************)
(* What clients send.                                                      *)
(***************************************************************************)
BadName == <<"a", "!">>

LoginBodies ==
    { [user |-> Bob, pass |-> BobPw],
      [user |-> Bob, pass |-> JenPw],
      [user |-> Jen, pass |-> JenPw],
      [user |-> Eve, pass |-> BobPw],
      [user |-> BadName, pass |-> BobPw],
      [pass |-> BobPw],
      [user |-> Bob, pass |-> BobPw, role |-> "admin"],
      [user |-> BadName, pass |-> BobPw, role |-> "admin"] }

Code == <<"A","B","1","2">>
Today == DateValue(TRUE, TRUE, -10)
NextYear == DateValue(TRUE, TRUE, 8760)
Noon == TimeValue(TRUE, 12, 0, 0)

CheckInBodies ==
    { [check_in |-> Code, date |-> Today, time |-> Noon],
      [check_in |-> BadName, date |-> Today, time |-> Noon],
      [check_in |-> Code, date |-> NextYear, time |-> Noon],
      [check_in |-> Code, date |-> Today, time |-> Noon, user |-> Jen],
      [check_in |-> Code, date |-> Today, time |-> Noon, username |-> Jen],
      [check_in |-> BadName, date |-> Today, time |-> Noon, user |-> Jen] }

MarkerBodies ==
    { [long |-> 138, lat |-> -34],
      [long |-> 200, lat |-> -34],
      [long |-> 138, lat |-> -34, id |-> 1],
      [long |-> 138, lat |-> 95, id |-> 1] }

NewEve == [user |-> Eve, pass |-> BobPw, email |-> EveMail, given_name |-> Eve,
           family_name |-> Brice, type |-> "user"]

SignupBodies ==
    { NewEve,
      [NewEve EXCEPT !.user = Bob],
      [NewEve EXCEPT !.type = "admin"],
      [user |-> Eve, pass |-> BobPw, email |-> EveMail, given_name |-> Eve,
       family_name |-> Brice, type |-> "user", role |-> "admin"] }

NoBody == [f \in {} |-> <<>>]

Bodies(route) ==
    CASE route = "login"      -> LoginBodies
      [] route = "signup"     -> SignupBodies
      [] route = "check_in"   -> CheckInBodies
      [] route = "addmarkers" -> MarkerBodies
      [] route = "logout"     -> {NoBody}
      [] route \in ReadRoutes -> {NoBody}

(***************************************************************************)
(* Requests.                                                               *)
(***************************************************************************)
\* nothing has been sent as the body of a success response
NoReply == [f \in {} |-> TRUE]

IdleReq ==
    [pc |-> "idle", route |-> "", sid |-> "", ip |-> "", body |-> NoBody,
     reply |-> NoReply,
     sess |-> NoUser, stages |-> <<>>, conn |-> "none", queries |-> 0,
     row |-> NoRow, hash |-> NoHash, shaMatch |-> FALSE,
     status |-> 0, error |-> "", retryAfter |-> 0, deniedBy |-> "", sent |-> 0]

\* the stage a request in the middleware is about to run
NextStage(q) == Pipeline(q.route)[Len(q.stages) + 1]

\* next(): on to the following stage, or into the route's handler
Passed(q, stage) ==
    [q EXCEPT !.stages = Append(q.stages, stage),
              !.pc = IF Len(q.stages) + 1 = Len(Pipeline(q.route))
                     THEN "handler" ELSE "middleware"]

\* a variant that answers and calls next() all the same
DeniedThenNext(q, stage, status, error, retryAfter) ==
    [q EXCEPT !.stages = Append(q.stages, stage),
              !.pc = IF Len(q.stages) + 1 = Len(Pipeline(q.route))
                     THEN "handler" ELSE "middleware",
              !.status = status, !.error = error, !.retryAfter = retryAfter,
              !.deniedBy = stage, !.sent = @ + 1]

\* a stage answers the request itself
Denied(q, stage, status, error, retryAfter) ==
    [q EXCEPT !.stages = Append(q.stages, stage), !.pc = "done",
              !.status = status, !.error = error, !.retryAfter = retryAfter,
              !.deniedBy = stage, !.sent = @ + 1]

\* the handler answers the request: one call of res.status(status).json(...)
Respond(q, status, error) ==
    [q EXCEPT !.pc = "done", !.status = status, !.error = error, !.sent = @ + 1]

\* the handler answers res.status(status).json(reply)
Json(q, status, reply) == [Respond(q, status, "") EXCEPT !.reply = reply]

\* a variant that hands no connection back to the pool
ReleaseNever(q) == q

\* connection.release(): the pool takes back a connection that is held;
\* releasing one that is not is a misuse the pool reports
Release(q) == [q EXCEPT !.conn = IF @ = "held" THEN "released" ELSE "misused"]

DbUnchanged == UNCHANGED <<user, check_ins, mapmarkers, rewrites>>

ProbesUnchanged == UNCHANGED <<hitLog, guard, xhr>>

(***************************************************************************)
(* The middleware stages.  A stage takes the request and the limiter       *)
(* stores and gives them back, the request passed on or answered.          *)
(***************************************************************************)
\* apiLimiter, authLimiter, writeLimiter
rateLimit(q, lim, t) ==
    LET stage == NextStage(q)
        class == LimiterClass(stage)
        opt   == Options(class)
        key   == keyGenerator(class, q.ip, q.sess)
        entry == increment(lim[class], key, t, opt.windowMs)
        h     == limitHandler(class)
    IN  IF skip(NODE_ENV) THEN [q |-> Passed(q, stage), lim |-> lim]
        ELSE [q   |-> IF overLimit(entry, opt.max)
                      THEN Denied(q, stage, h.status, h.error, h.retryAfter)
                      ELSE Passed(q, stage),
              lim |-> [lim EXCEPT ![class] = Put(lim[class], key, entry)]]

rejectUnexpectedStage(q) ==
    IF rejectUnexpectedFields(AllowedOf(q.route), q.body) # 0
    THEN Denied(q, "rejectUnexpectedFields", 400, "Invalid request", 0)
    ELSE Passed(q, "rejectUnexpectedFields")

validationStage(q) ==
    IF handleValidationErrors(ValidationOf(q.route, q.body)) # 0
    THEN Denied(q, "validation", 400, "Validation failed", 0)
    ELSE Passed([q EXCEPT !.body = validated(q.body)], "validation")

requireAuthStage(q) ==
    IF requireAuth(q.sess) # 0
    THEN Denied(q, "requireAuth", 401, "Authentication required", 0)
    ELSE Passed(q, "requireAuth")

requireRoleStage(q) ==
    LET status == requireRole(MarkerRoles, q.sess) IN
    IF status = 401 THEN Denied(q, "requireRole", 401, "Authentication required", 0)
    ELSE IF status = 403
    THEN Denied(q, "requireRole", 403, "Access denied. Insufficient permissions.", 0)
    ELSE Passed(q, "requireRole")

RunStage(q, lim, t) ==
    LET stage == NextStage(q) IN
    IF stage \in LimiterStages THEN rateLimit(q, lim, t)
    ELSE [q |-> CASE stage = "rejectUnexpectedFields" -> rejectUnexpectedStage(q)
                  [] stage = "validation"             -> validationStage(q)
                  [] stage = "requireAuth"            -> requireAuthStage(q)
                  [] stage = "requireRole"            -> requireRoleStage(q),
          lim |-> lim]

\* express runs the stages one after the other until one answers the request
\* or the last one calls next() into the route's handler
RECURSIVE RunPipeline(_, _, _)
RunPipeline(q, lim, t) ==
    IF q.pc # "middleware" THEN [q |-> q, lim |-> lim]
    ELSE LET s == RunStage(q, lim, t) IN RunPipeline(s.q, s.lim, t)

(***************************************************************************)
(* app.js: a request arrives, the session middleware loads its session,    *)
(* sanitizeInputs trims its body, and the request runs down the middleware *)
(* of its route.  The stages touch the request and the limiter stores      *)
(* only, so running them in one step loses no interleaving that matters.   *)
(***************************************************************************)
Incoming(route, sid, ip, body) ==
    [IdleReq EXCEPT !.pc = "middleware", !.route = route, !.sid = sid, !.ip = ip,
                    !.body = sanitizeInputs(body), !.sess = session[sid]]

\* slots are interchangeable: a request takes the first free one
Free(r) == req[r].pc \in {"idle", "done"}

\* the handlers that answer in the turn of the event loop that runs the
\* middleware: GET /username, /email and /header
Send(q, text) == Json(q, 200, [text |-> text])

syncHandler(q) ==
    IF q.pc # "handler" THEN q
    ELSE CASE q.route = "username" -> Send(q, q.sess.username)
           [] q.route = "email"    -> Send(q, q.sess.email_address)
           [] q.route = "header"   -> Send(q, IF q.sess # NoUser THEN <<"i","n">>
                                              ELSE <<"o","u","t">>)
           [] OTHER -> q

\* a request of one of the given kinds (a route and a body) arrives
ReceiveOf(r, kinds) ==
    /\ Free(r)
    /\ \A other \in Slots : other < r => ~Free(other)
    /\ arrivals < MaxRequests
    /\ \E kind \in kinds, sid \in Sids, ip \in Ips :
         LET out == RunPipeline(Incoming(kind[1], sid, ip, kind[2]), limiter, now) IN
         /\ req' = [req EXCEPT ![r] = syncHandler(out.q)]
         /\ limiter' = out.lim
    /\ arrivals' = arrivals + 1
    /\ UNCHANGED <<session, now>>
    /\ DbUnchanged
    /\ ProbesUnchanged

Kinds(routes) == UNION {{<<route, body>> : body \in Bodies(route)} : route \in routes}

Receive(r) == ReceiveOf(r, Kinds(Routes))

(***************************************************************************)
(* POST /users/login (routes/users.js).                                    *)
(***************************************************************************)
AtHandler(r, route) == req[r].pc = "handler" /\ req[r].route = route

\* SELECT ... FROM user WHERE username = ?
selectByUsername(table, username) == {row \in table : row.username = username}

\* a variant of the legacy query that leaves the password out
shaQueryByName(table, username, password) ==
    {row \in table : row.username = username}

\* SELECT u_id FROM user WHERE username = ? AND password = SHA2(?, 256)
shaQuery(table, username, password) ==
    {row \in table : row.username = username /\ row.password = SHA2(password)}

\* UPDATE user SET password = ? WHERE u_id = ?
updatePassword(table, hash, id) ==
    {IF row.u_id = id THEN [row EXCEPT !.password = hash] ELSE row : row \in table}

\* a variant that falls back to the legacy digest on some calls
upgradeHashFallback(password, salt) ==
    IF salt = 1 THEN SHA2(password) ELSE bcryptHash(password, BCRYPT_ROUNDS, salt)

\* the hash the upgrade stores: bcrypt.hash(password, BCRYPT_ROUNDS)
upgradeHash(password, salt) == bcryptHash(password, BCRYPT_ROUNDS, salt)

\* a variant that answers with the row as it was read
loginReplyRow(row) == row

\* res.json({success: true, username: user.username, user_type: user.user_type})
loginReply(row) ==
    [success |-> TRUE, username |-> row.username, user_type |-> row.user_type]

\* req.session.user = {...}; res.json({success: true, ...}): the session is
\* saved with the response
LoggedIn(q) == [Json(q, 200, loginReply(q.row)) EXCEPT !.sess = SessionUser(q.row)]

\* a variant that answers 500 when the rewrite fails
upgradeFailureSurfaced(q, err) ==
    IF err THEN Respond(q, 500, "Server error") ELSE LoggedIn(q)

\* the end of the UPDATE's callback: a failed rewrite is logged and the login
\* succeeds all the same
afterUpgrade(q, err) == LoggedIn(q)

\* req.pool.getConnection(function(err, connection) {...})
LoginGetConnection(r) ==
    /\ AtHandler(r, "login")
    /\ \E err \in BOOLEAN :
         req' = [req EXCEPT ![r] =
                   IF err THEN Respond(@, 500, "Server error")
                   ELSE [@ EXCEPT !.pc = "selectUser", !.conn = "held"]]
    /\ UNCHANGED <<session, limiter, now, arrivals>>
    /\ DbUnchanged
    /\ ProbesUnchanged

\* a variant that tells the client the username is not known
LoginSelectUserNotFound(r) ==
    /\ req[r].pc = "selectUser"
    /\ LET q == [req[r] EXCEPT !.queries = @ + 1]
           rows == selectByUsername(user, q.body.user)
       IN  \E err \in BOOLEAN :
             req' = [req EXCEPT ![r] =
                IF err THEN Respond(Release(q), 500, "Server error")
                ELSE IF rows = {}
                THEN Respond(Release(q), 404, "User not found")
                ELSE LET row == CHOOSE x \in rows : TRUE IN
                     [q EXCEPT !.row = row,
                               !.pc = IF isBcryptHash(row.password)
                                      THEN "bcryptCompare" ELSE "shaQuery"]]
    /\ UNCHANGED <<session, limiter, now, arrivals>>
    /\ DbUnchanged
    /\ ProbesUnchanged

\* the callback of the SELECT by username
LoginSelectUser(r) ==
    /\ req[r].pc = "selectUser"
    /\ LET q == [req[r] EXCEPT !.queries = @ + 1]
           rows == selectByUsername(user, q.body.user)
       IN  \E err \in BOOLEAN :
             req' = [req EXCEPT ![r] =
                IF err THEN Respond(Release(q), 500, "Server error")
                ELSE IF rows = {}
                THEN Respond(Release(q), 401, "Invalid username or password")
                ELSE LET row == CHOOSE x \in rows : TRUE IN
                     [q EXCEPT !.row = row,
                               !.pc = IF isBcryptHash(row.password)
                                      THEN "bcryptCompare" ELSE "shaQuery"]]
    /\ UNCHANGED <<session, limiter, now, arrivals>>
    /\ DbUnchanged
    /\ ProbesUnchanged

\* the callback of bcrypt.compare(password, storedHash)
LoginBcryptCompare(r) ==
    /\ req[r].pc = "bcryptCompare"
    /\ LET q == Release(req[r])
           match == bcryptCompare(q.body.pass, q.row.password)
       IN  \E err \in BOOLEAN :
             IF err
             THEN /\ req' = [req EXCEPT ![r] = Respond(q, 500, "Server error")]
                  /\ UNCHANGED session
             ELSE IF match
             THEN /\ req' = [req EXCEPT ![r] = LoggedIn(q)]
                  /\ session' = [session EXCEPT ![q.sid] = SessionUser(q.row)]
             ELSE /\ req' = [req EXCEPT ![r] =
                               Respond(q, 401, "Invalid username or password")]
                  /\ UNCHANGED session
    /\ UNCHANGED <<limiter, now, arrivals>>
    /\ DbUnchanged
    /\ ProbesUnchanged

\* a variant that writes the session before it looks at the rows
LoginShaQuerySessionFirst(r) ==
    /\ req[r].pc = "shaQuery"
    /\ LET q == [req[r] EXCEPT !.queries = @ + 1]
           shaRows == shaQuery(user, q.body.user, q.body.pass)
       IN  \E err \in BOOLEAN :
             /\ req' = [req EXCEPT ![r] =
                   IF err THEN Respond(Release(q), 500, "Server error")
                   ELSE IF shaRows # {}
                   THEN [q EXCEPT !.pc = "bcryptHash", !.shaMatch = TRUE]
                   ELSE Respond(Release(q), 401, "Invalid username or password")]
             /\ session' = IF err THEN session
                           ELSE [session EXCEPT ![q.sid] = SessionUser(q.row)]
    /\ UNCHANGED <<limiter, now, arrivals>>
    /\ DbUnchanged
    /\ ProbesUnchanged

\* the callback of the legacy SELECT ... AND password = SHA2(?, 256)
LoginShaQuery(r) ==
    /\ req[r].pc = "shaQuery"
    /\ LET q == [req[r] EXCEPT !.queries = @ + 1]
           shaRows == shaQuery(user, q.body.user, q.body.pass)
       IN  \E err \in BOOLEAN :
             req' = [req EXCEPT ![r] =
                IF err THEN Respond(Release(q), 500, "Server error")
                ELSE IF shaRows # {}
                THEN [q EXCEPT !.pc = "bcryptHash", !.shaMatch = TRUE]
                ELSE Respond(Release(q), 401, "Invalid username or password")]
    /\ UNCHANGED <<session, limiter, now, arrivals>>
    /\ DbUnchanged
    /\ ProbesUnchanged

\* the callback of bcrypt.hash(password, BCRYPT_ROUNDS) in the upgrade
LoginBcryptHash(r) ==
    /\ req[r].pc = "bcryptHash"
    /\ LET q == req[r] IN
       \E err \in BOOLEAN, salt \in Salts :
          IF err
          THEN \* still allow login even if upgrade fails
               /\ req' = [req EXCEPT ![r] = LoggedIn(Release(q))]
               /\ session' = [session EXCEPT ![q.sid] = SessionUser(q.row)]
          ELSE /\ req' = [req EXCEPT ![r] =
                            [q EXCEPT !.pc = "updatePassword",
                                      !.hash = upgradeHash(q.body.pass, salt)]]
               /\ UNCHANGED session
    /\ UNCHANGED <<limiter, now, arrivals>>
    /\ DbUnchanged
    /\ ProbesUnchanged

\* the callback of UPDATE user SET password = ? WHERE u_id = ?
LoginUpdatePassword(r) ==
    /\ req[r].pc = "updatePassword"
    /\ LET q == Release([req[r] EXCEPT !.queries = @ + 1]) IN
       /\ \E err \in BOOLEAN :
            /\ IF err
               THEN UNCHANGED <<user, rewrites>>
               ELSE /\ user' = updatePassword(user, q.hash, q.row.u_id)
                    /\ rewrites' = [rewrites EXCEPT ![q.row.u_id] = @ + 1]
            /\ req' = [req EXCEPT ![r] = afterUpgrade(q, err)]
       /\ session' = [session EXCEPT ![q.sid] = SessionUser(q.row)]
    /\ UNCHANGED <<check_ins, mapmarkers, limiter, now, arrivals>>
    /\ ProbesUnchanged

(***************************************************************************)
(* POST /users/logout.                                                     *)
(***************************************************************************)
\* a variant whose error branch does not return: it answers 500 and then
\* goes on to answer success
LogoutNoReturn(r) ==
    /\ AtHandler(r, "logout")
    /\ LET q == req[r] IN
       \E err \in BOOLEAN :
          IF err
          THEN /\ req' = [req EXCEPT ![r] =
                            Json(Respond(q, 500, "Logout failed"), 200, [success |-> TRUE])]
               /\ UNCHANGED session
          ELSE /\ req' = [req EXCEPT ![r] =
                            [Json(q, 200, [success |-> TRUE]) EXCEPT !.sess = NoUser]]
               /\ session' = [session EXCEPT ![q.sid] = NoUser]
    /\ UNCHANGED <<limiter, now, arrivals>>
    /\ DbUnchanged
    /\ ProbesUnchanged

\* req.session.destroy(function(err) {...})
Logout(r) ==
    /\ AtHandler(r, "logout")
    /\ LET q == req[r] IN
       \E err \in BOOLEAN :
          IF err
          THEN /\ req' = [req EXCEPT ![r] = Respond(q, 500, "Logout failed")]
               /\ UNCHANGED session
          ELSE /\ req' = [req EXCEPT ![r] =
                            [Json(q, 200, [success |-> TRUE]) EXCEPT !.sess = NoUser]]
               /\ session' = [session EXCEPT ![q.sid] = NoUser]
    /\ UNCHANGED <<limiter, now, arrivals>>
    /\ DbUnchanged
    /\ ProbesUnchanged

(***************************************************************************)
(* POST /users/signup.                                                     *)
(***************************************************************************)
\* SELECT email_address FROM user WHERE email_address = ?
selectByEmail(table, email) == {row \in table : row.email_address = email}

\* the u_id AUTO_INCREMENT gives the new row
nextUserId(table) ==
    1 + (CHOOSE m \in {row.u_id : row \in table} \cup {0} :
            \A row \in table : row.u_id <= m)

\* a variant that stores the password as it was typed
insertUserPlain(table, q) ==
    table \cup { [u_id |-> nextUserId(table), given_name |-> q.body.given_name,
                  family_name |-> q.body.family_name, username |-> q.body.user,
                  password |-> Plain(q.body.pass), email_address |-> q.body.email,
                  user_type |-> q.body.type] }

\* INSERT INTO user (given_name, family_name, username, password, email_address,
\* user_type) VALUES (?, ?, ?, ?, ?, ?)
insertUser(table, q) ==
    table \cup { [u_id |-> nextUserId(table), given_name |-> q.body.given_name,
                  family_name |-> q.body.family_name, username |-> q.body.user,
                  password |-> q.hash, email_address |-> q.body.email,
                  user_type |-> q.body.type] }

\* the callback of bcrypt.hash(password, BCRYPT_ROUNDS)
SignupBcryptHash(r) ==
    /\ AtHandler(r, "signup")
    /\ LET q == req[r] IN
       \E err \in BOOLEAN, salt \in Salts :
          req' = [req EXCEPT ![r] =
                    IF err THEN Respond(q, 500, "Server error")
                    ELSE [q EXCEPT !.pc = "signupConnection",
                                   !.hash = bcryptHash(q.body.pass, BCRYPT_ROUNDS, salt)]]
    /\ UNCHANGED <<session, limiter, now, arrivals>>
    /\ DbUnchanged
    /\ ProbesUnchanged

SignupGetConnection(r) ==
    /\ req[r].pc = "signupConnection"
    /\ \E err \in BOOLEAN :
         req' = [req EXCEPT ![r] =
                   IF err THEN Respond(@, 500, "Server error")
                   ELSE [@ EXCEPT !.pc = "checkUsername", !.conn = "held"]]
    /\ UNCHANGED <<session, limiter, now, arrivals>>
    /\ DbUnchanged
    /\ ProbesUnchanged

\* the callback of SELECT username FROM user WHERE username = ?
SignupCheckUsername(r) ==
    /\ req[r].pc = "checkUsername"
    /\ LET q == [req[r] EXCEPT !.queries = @ + 1]
           rows == selectByUsername(user, q.body.user)
       IN  \E err \in BOOLEAN :
             req' = [req EXCEPT ![r] =
                IF err THEN Respond(Release(q), 500, "Server error")
                ELSE IF rows # {} THEN Respond(Release(q), 409, "Username already exists")
                ELSE [q EXCEPT !.pc = "checkEmail"]]
    /\ UNCHANGED <<session, limiter, now, arrivals>>
    /\ DbUnchanged
    /\ ProbesUnchanged

\* the callback of SELECT email_address FROM user WHERE email_address = ?
SignupCheckEmail(r) ==
    /\ req[r].pc = "checkEmail"
    /\ LET q == [req[r] EXCEPT !.queries = @ + 1]
           emailRows == selectByEmail(user, q.body.email)
       IN  \E err \in BOOLEAN :
             req' = [req EXCEPT ![r] =
                IF err THEN Respond(Release(q), 500, "Server error")
                ELSE IF emailRows # {}
                THEN Respond(Release(q), 409, "Email already registered")
                ELSE [q EXCEPT !.pc = "insertUser"]]
    /\ UNCHANGED <<session, limiter, now, arrivals>>
    /\ DbUnchanged
    /\ ProbesUnchanged

\* the callback of the INSERT; the driver may report a duplicate key or
\* another failure
SignupInsert(r) ==
    /\ req[r].pc = "insertUser"
    /\ LET q == Release([req[r] EXCEPT !.queries = @ + 1]) IN
       \E err \in {"", "ER_DUP_ENTRY", "other"} :
          IF err = "ER_DUP_ENTRY"
          THEN /\ req' = [req EXCEPT ![r] =
                            Respond(q, 409, "Username or email already exists")]
               /\ UNCHANGED user
          ELSE IF err # ""
          THEN /\ req' = [req EXCEPT ![r] = Respond(q, 500, "Registration failed")]
               /\ UNCHANGED user
          ELSE /\ req' = [req EXCEPT ![r] =
                            Json(q, 201, [success |-> TRUE,
                                          message |-> "Account created successfully"])]
               /\ user' = insertUser(user, q)
    /\ UNCHANGED <<check_ins, mapmarkers, rewrites, session, limiter, now, arrivals>>
    /\ ProbesUnchanged

(***************************************************************************)
(* POST /users/check_in.                                                   *)
(***************************************************************************)
\* a variant that stores the user named in the body
checkInOwnerFromBody(q) == IF Has(q.body, "user") THEN q.body.user ELSE <<>>

\* the owner the handler stores: req.session.user.username
checkInOwner(q) == q.sess.username

CheckInRow(q) ==
    [check_in_code |-> q.body.check_in, date_ |-> q.body.date, time_ |-> q.body.time,
     username |-> checkInOwner(q)]

CheckInGetConnection(r) ==
    /\ AtHandler(r, "check_in")
    /\ \E err \in BOOLEAN :
         req' = [req EXCEPT ![r] =
                   IF err THEN Respond(@, 500, "Server error")
                   ELSE [@ EXCEPT !.pc = "insertCheckIn", !.conn = "held"]]
    /\ UNCHANGED <<session, limiter, now, arrivals>>
    /\ DbUnchanged
    /\ ProbesUnchanged

\* the callback of INSERT INTO check_ins
CheckInInsert(r) ==
    /\ req[r].pc = "insertCheckIn"
    /\ LET q == Release([req[r] EXCEPT !.queries = @ + 1]) IN
       \E err \in BOOLEAN :
          IF err
          THEN /\ req' = [req EXCEPT ![r] = Respond(q, 500, "Check-in failed")]
               /\ UNCHANGED check_ins
          ELSE /\ req' = [req EXCEPT ![r] =
                            Json(q, 201, [success |-> TRUE,
                                          message |-> "Check-in recorded successfully"])]
               /\ check_ins' = Append(check_ins, CheckInRow(q))
    /\ UNCHANGED <<user, mapmarkers, rewrites, session, limiter, now, arrivals>>
    /\ ProbesUnchanged

(***************************************************************************)
(* POST /addmarkers (routes/index.js).                                     *)
(***************************************************************************)
MarkerGetConnection(r) ==
    /\ AtHandler(r, "addmarkers")
    /\ \E err \in BOOLEAN :
         req' = [req EXCEPT ![r] =
                   IF err THEN Respond(@, 500, "Database connection failed")
                   ELSE [@ EXCEPT !.pc = "insertMarker", !.conn = "held"]]
    /\ UNCHANGED <<session, limiter, now, arrivals>>
    /\ DbUnchanged
    /\ ProbesUnchanged

\* the callback of INSERT INTO mapmarkers
MarkerInsert(r) ==
    /\ req[r].pc = "insertMarker"
    /\ LET q == Release([req[r] EXCEPT !.queries = @ + 1]) IN
       \E err \in BOOLEAN :
          IF err
          THEN /\ req' = [req EXCEPT ![r] = Respond(q, 500, "Failed to add marker")]
               /\ UNCHANGED mapmarkers
          ELSE /\ req' = [req EXCEPT ![r] =
                            Json(q, 201, [success |-> TRUE, id |-> Len(mapmarkers) + 1,
                                          longitude |-> q.body.long,
                                          latitude |-> q.body.lat])]
               /\ mapmarkers' = Append(mapmarkers,
                                       [longitude |-> q.body.long, latitude |-> q.body.lat])
    /\ UNCHANGED <<user, check_ins, rewrites, session, limiter, now, arrivals>>
    /\ ProbesUnchanged

(***************************************************************************)
(* POST /users/history and GET /mapmarkers.                                *)
(***************************************************************************)
\* seconds into the day of a time value
SecondsOf(t) == t.h * 3600 + t.m * 60 + t.s

\* ORDER BY date_ DESC, time_ DESC: row a comes before row b
Before(a, b) ==
    \/ a.date_.off > b.date_.off
    \/ a.date_.off = b.date_.off /\ SecondsOf(a.time_) > SecondsOf(b.time_)

RECURSIVE InsertRow(_, _)
InsertRow(row, sorted) ==
    IF sorted = <<>> THEN <<row>>
    ELSE IF Before(row, Head(sorted)) THEN <<row>> \o sorted
    ELSE <<Head(sorted)>> \o InsertRow(row, Tail(sorted))

RECURSIVE OrderBy(_)
OrderBy(rows) == IF rows = <<>> THEN <<>> ELSE InsertRow(Head(rows), OrderBy(Tail(rows)))

\* SELECT check_in_code, date_, time_ FROM check_ins WHERE username = ?
\* ORDER BY date_ DESC, time_ DESC
\* a variant without the WHERE clause
OwnedByAnyone(row, username) == TRUE

Owned(row, username) == row.username = username
historyQuery(table, username) ==
    LET mine == SelectSeq(table, LAMBDA row : Owned(row, username)) IN
    OrderBy([i \in 1..Len(mine) |->
               [check_in_code |-> mine[i].check_in_code, date_ |-> mine[i].date_,
                time_ |-> mine[i].time_]])

HistoryGetConnection(r) ==
    /\ AtHandler(r, "history")
    /\ \E err \in BOOLEAN :
         req' = [req EXCEPT ![r] =
                   IF err THEN Respond(@, 500, "Server error")
                   ELSE [@ EXCEPT !.pc = "selectHistory", !.conn = "held"]]
    /\ UNCHANGED <<session, limiter, now, arrivals>>
    /\ DbUnchanged
    /\ ProbesUnchanged

\* the callback of the SELECT of the history
HistoryQuery(r) ==
    /\ req[r].pc = "selectHistory"
    /\ LET q == Release([req[r] EXCEPT !.queries = @ + 1]) IN
       \E err \in BOOLEAN :
          req' = [req EXCEPT ![r] =
                    IF err THEN Respond(q, 500, "Failed to retrieve history")
                    ELSE Json(q, 200, [rows |-> historyQuery(check_ins, q.sess.username)])]
    /\ UNCHANGED <<session, limiter, now, arrivals>>
    /\ DbUnchanged
    /\ ProbesUnchanged

MapMarkersGetConnection(r) ==
    /\ AtHandler(r, "mapmarkers")
    /\ \E err \in BOOLEAN :
         req' = [req EXCEPT ![r] =
                   IF err THEN Respond(@, 500, "Database connection failed")
                   ELSE [@ EXCEPT !.pc = "selectMarkers", !.conn = "held"]]
    /\ UNCHANGED <<session, limiter, now, arrivals>>
    /\ DbUnchanged
    /\ ProbesUnchanged

\* the callback of SELECT * FROM mapmarkers
MapMarkersQuery(r) ==
    /\ req[r].pc = "selectMarkers"
    /\ LET q == Release([req[r] EXCEPT !.queries = @ + 1]) IN
       \E err \in BOOLEAN :
          req' = [req EXCEPT ![r] =
                    IF err THEN Respond(q, 500, "Failed to retrieve markers")
                    ELSE Json(q, 200, [rows |-> mapmarkers])]
    /\ UNCHANGED <<session, limiter, now, arrivals>>
    /\ DbUnchanged
    /\ ProbesUnchanged

\* nothing has been put to requireRole
\* the page before logout() is called: no XMLHttpRequest, no redirect
NoXhr == [pc |-> "page", readyState |-> 0, sends |-> 0, failed |-> FALSE,
          redirected |-> FALSE]

NoGuard == [sess |-> NoUser, allowedRoles |-> {}, answer |-> -1]

(***************************************************************************)
(* The server.                                                             *)
(***************************************************************************)
\* a limiter whose known keys have used up the window that is running
Exhausted(class) ==
    LET keys == IF class = "auth" THEN Ips
                ELSE {getClientKey(ip, NoUser) : ip \in Ips}
                     \cup {ip \o ":" \o ToString(id) : ip \in Ips, id \in UserIds}
    IN  [k \in keys |-> [totalHits |-> Options(class).max,
                         resetTime |-> Options(class).windowMs]]

Init ==
    /\ user = SeedUsers
    /\ check_ins = <<>>
    /\ mapmarkers = <<>>
    /\ session = [s \in Sids |-> NoUser]
    /\ \E full \in Classes \cup {"none"} :
         limiter = [c \in Classes |-> IF c = full THEN Exhausted(c) ELSE EmptyStore]
    /\ now = 0
    /\ req = [r \in Slots |-> IdleReq]
    /\ arrivals = 0
    /\ rewrites = [id \in UserIds |-> 0]
    /\ hitLog = <<>>
    /\ guard = NoGuard
    /\ xhr = NoXhr

Next ==
    \E r \in Slots :
       \/ Receive(r)
       \/ LoginGetConnection(r)
       \/ LoginSelectUser(r)
       \/ LoginBcryptCompare(r)
       \/ LoginShaQuery(r)
       \/ LoginBcryptHash(r)
       \/ LoginUpdatePassword(r)
       \/ Logout(r)
       \/ SignupBcryptHash(r)
       \/ SignupGetConnection(r)
       \/ SignupCheckUsername(r)
       \/ SignupCheckEmail(r)
       \/ SignupInsert(r)
       \/ CheckInGetConnection(r)
       \/ CheckInInsert(r)
       \/ MarkerGetConnection(r)
       \/ MarkerInsert(r)

Spec == Init /\ [][Next]_vars

(***************************************************************************)
(* One client and the clock: requests from one address to /users/login,    *)
(* which authLimiter limits, while the time passes.  The requests are ones *)
(* the middleware answers, so that nothing but the limiters is at work.    *)
(***************************************************************************)
TickMs == Options("auth").windowMs \div TicksPerWindow

LimitedBodies == {[pass |-> BobPw], [user |-> Bob, pass |-> BobPw, role |-> "admin"]}

InitLimiter ==
    /\ user = SeedUsers
    /\ check_ins = <<>>
    /\ mapmarkers = <<>>
    /\ session = [s \in Sids |-> NoUser]
    /\ limiter = [c \in Classes |-> EmptyStore]
    /\ now = 0
    /\ req = [r \in Slots |-> IdleReq]
    /\ arrivals = 0
    /\ rewrites = [id \in UserIds |-> 0]
    /\ hitLog = <<>>
    /\ guard = NoGuard
    /\ xhr = NoXhr

LimitedRequest ==
    /\ Len(hitLog) < MaxHits
    /\ \E sid \in Sids, ip \in Ips, body \in LimitedBodies :
         LET out == RunPipeline(Incoming("login", sid, ip, body), limiter, now) IN
         /\ req' = [req EXCEPT ![1] = out.q]
         /\ limiter' = out.lim
         /\ hitLog' = Append(hitLog, [at |-> now, status |-> out.q.status,
                                      retryAfter |-> out.q.retryAfter,
                                      limitedBy |-> IF out.q.deniedBy \in LimiterStages
                                                    THEN out.q.deniedBy ELSE ""])
    /\ UNCHANGED <<session, now, arrivals, guard, xhr>>
    /\ DbUnchanged

Tick ==
    /\ now < MaxTicks * TickMs
    /\ now' = now + TickMs
    /\ UNCHANGED <<session, limiter, req, arrivals, hitLog, guard, xhr>>
    /\ DbUnchanged

NextLimiter == LimitedRequest \/ Tick

SpecLimiter == InitLimiter /\ [][NextLimiter]_vars

(***************************************************************************)
(* requireRole put to every session and every set of allowed roles, over   *)
(* user tables that agree with the session's role and ones that do not.    *)
(***************************************************************************)
GuardRoles == {"user", "manager", "admin"}

GuardSessions ==
    {NoUser} \cup
    {[SessionUser(row) EXCEPT !.user_type = role] :
        row \in SeedUsers, role \in GuardRoles \cup {"guest", ""}}

GuardTables ==
    {SeedUsers, {}, {[row EXCEPT !.user_type = "admin"] : row \in SeedUsers}}

InitGuard ==
    /\ user \in GuardTables
    /\ check_ins = <<>>
    /\ mapmarkers = <<>>
    /\ session = [s \in Sids |-> NoUser]
    /\ limiter = [c \in Classes |-> EmptyStore]
    /\ now = 0
    /\ req = [r \in Slots |-> IdleReq]
    /\ arrivals = 0
    /\ rewrites = [id \in UserIds |-> 0]
    /\ hitLog = <<>>
    /\ \E sess \in GuardSessions, allowedRoles \in SUBSET GuardRoles :
         guard = [sess |-> sess, allowedRoles |-> allowedRoles, answer |-> -1]
    /\ xhr = NoXhr

GuardCheck ==
    /\ guard.answer = -1
    /\ guard' = [guard EXCEPT !.answer = requireRole(guard.allowedRoles, guard.sess)]
    /\ UNCHANGED <<session, limiter, now, req, arrivals, hitLog, xhr>>
    /\ DbUnchanged

NextGuard == GuardCheck

SpecGuard == InitGuard /\ [][NextGuard]_vars

(***************************************************************************)
(* A session that is logged in when the server is looked at: logins,       *)
(* logouts and requests to the protected routes and to /header on it.      *)
(***************************************************************************)
SessionKinds ==
    {<<"login", [user |-> Bob, pass |-> BobPw]>>,
     <<"login", [user |-> Bob, pass |-> JenPw]>>,
     <<"login", [pass |-> BobPw]>>,
     <<"signup", [NewEve EXCEPT !.type = "admin"]>>,
     <<"logout", NoBody>>,
     <<"check_in", [check_in |-> Code, date |-> Today, time |-> Noon]>>,
     <<"addmarkers", [long |-> 138, lat |-> -34]>>}
    \cup Kinds(ReadRoutes)

\* the general limiter when the client used up its window before it logged in:
\* the login was the last request the limiter let through under that key
AnonymousSpent ==
    [k \in {getClientKey(ip, NoUser) : ip \in Ips} |-> Exhausted("api")[k]]

InitSession ==
    /\ user = SeedUsers
    /\ check_ins = <<>>
    /\ mapmarkers = <<>>
    /\ \E row \in SeedUsers : session = [s \in Sids |-> SessionUser(row)]
    /\ \E spent \in {"anonymous", "auth", "none"} :
         limiter = [c \in Classes |->
                      CASE c = "api" /\ spent = "anonymous" -> AnonymousSpent
                        [] c = "auth" /\ spent = "auth"     -> Exhausted("auth")
                        [] OTHER                            -> EmptyStore]
    /\ now = 0
    /\ req = [r \in Slots |-> IdleReq]
    /\ arrivals = 0
    /\ rewrites = [id \in UserIds |-> 0]
    /\ hitLog = <<>>
    /\ guard = NoGuard
    /\ xhr = NoXhr

NextSession ==
    \E r \in Slots :
       \/ ReceiveOf(r, SessionKinds)
       \/ LoginGetConnection(r)
       \/ LoginSelectUser(r)
       \/ LoginBcryptCompare(r)
       \/ LoginShaQuery(r)
       \/ LoginBcryptHash(r)
       \/ LoginUpdatePassword(r)
       \/ Logout(r)
       \/ CheckInGetConnection(r)
       \/ CheckInInsert(r)
       \/ MarkerGetConnection(r)
       \/ MarkerInsert(r)
       \/ HistoryGetConnection(r)
       \/ HistoryQuery(r)
       \/ MapMarkersGetConnection(r)
       \/ MapMarkersQuery(r)

SpecSession == InitSession /\ [][NextSession]_vars

(***************************************************************************)
(* The handlers that take a connection from the pool, on a session that is *)
(* logged in: every way out of login, signup, check_in, addmarkers,        *)
(* history and mapmarkers.                                                 *)
(***************************************************************************)
HandlerKinds ==
    {<<"login", [user |-> Bob, pass |-> BobPw]>>,
     <<"login", [user |-> Bob, pass |-> JenPw]>>,
     <<"login", [user |-> Eve, pass |-> BobPw]>>,
     <<"signup", NewEve>>,
     <<"signup", [NewEve EXCEPT !.user = Bob]>>,
     <<"signup", [NewEve EXCEPT !.email = BobMail]>>,
     <<"check_in", [check_in |-> Code, date |-> Today, time |-> Noon]>>,
     <<"addmarkers", [long |-> 138, lat |-> -34]>>,
     <<"history", NoBody>>,
     <<"mapmarkers", NoBody>>}

NextHandlers ==
    \E r \in Slots :
       \/ ReceiveOf(r, HandlerKinds)
       \/ LoginGetConnection(r)
       \/ LoginSelectUser(r)
       \/ LoginBcryptCompare(r)
       \/ LoginShaQuery(r)
       \/ LoginBcryptHash(r)
       \/ LoginUpdatePassword(r)
       \/ SignupBcryptHash(r)
       \/ SignupGetConnection(r)
       \/ SignupCheckUsername(r)
       \/ SignupCheckEmail(r)
       \/ SignupInsert(r)
       \/ CheckInGetConnection(r)
       \/ CheckInInsert(r)
       \/ MarkerGetConnection(r)
       \/ MarkerInsert(r)
       \/ HistoryGetConnection(r)
       \/ HistoryQuery(r)
       \/ MapMarkersGetConnection(r)
       \/ MapMarkersQuery(r)

\* no limiter has counted a request of the client in the running window
InitHandlers == InitSession /\ limiter = [c \in Classes |-> EmptyStore]

SpecHandlers == InitHandlers /\ [][NextHandlers]_vars

(***************************************************************************)
(* POST /users/history on tables of check-ins that Bob and Jen have made   *)
(* on two days at two times of day.                                        *)
(***************************************************************************)
LastWeek == DateValue(TRUE, TRUE, -178)
Dawn == TimeValue(TRUE, 6, 30, 15)

StoredRows ==
    {[check_in_code |-> Code, date_ |-> d, time_ |-> t, username |-> u] :
        d \in {Today, LastWeek}, t \in {Noon, Dawn}, u \in {Bob, Jen}}

Tables == UNION {[1..n -> StoredRows] : n \in 0..MaxRows}

InitHistory ==
    /\ user = SeedUsers
    /\ check_ins \in Tables
    /\ mapmarkers = <<>>
    /\ \E row \in SeedUsers : session = [s \in Sids |-> SessionUser(row)]
    /\ limiter = [c \in Classes |-> EmptyStore]
    /\ now = 0
    /\ req = [r \in Slots |-> IdleReq]
    /\ arrivals = 0
    /\ rewrites = [id \in UserIds |-> 0]
    /\ hitLog = <<>>
    /\ guard = NoGuard
    /\ xhr = NoXhr

NextHistory ==
    \E r \in Slots :
       \/ ReceiveOf(r, {<<"history", NoBody>>})
       \/ HistoryGetConnection(r)
       \/ HistoryQuery(r)

SpecHistory == InitHistory /\ [][NextHistory]_vars

(***************************************************************************)
(* public/javascripts/login.js logout() in the browser of a client that is *)
(* logged in, the server answering its POST /users/logout, and the home    *)
(* page asking GET /header once the browser has been redirected.           *)
(***************************************************************************)
\* a variant of the handler that redirects on the first change of state
onreadystatechangeAtOnce(readyState) == TRUE

\* xmlhttp.onreadystatechange: does it assign window.location.href = '/'
onreadystatechange(readyState) == readyState = 4

\* the XMLHttpRequest moves to readyState and fires readystatechange
Fire(x, readyState) ==
    [x EXCEPT !.readyState = readyState,
              !.redirected = @ \/ onreadystatechange(readyState)]

\* logout(): var xmlhttp = new XMLHttpRequest(); xmlhttp.onreadystatechange = ...
LogoutClick ==
    /\ xhr.pc = "page"
    /\ xhr' = [xhr EXCEPT !.pc = "created"]
    /\ UNCHANGED <<session, limiter, now, req, arrivals, hitLog, guard>>
    /\ DbUnchanged

\* xmlhttp.open('POST', '/users/logout', true): readyState 1
XhrOpen ==
    /\ xhr.pc = "created"
    /\ xhr' = [Fire(xhr, 1) EXCEPT !.pc = "opened"]
    /\ UNCHANGED <<session, limiter, now, req, arrivals, hitLog, guard>>
    /\ DbUnchanged

\* xmlhttp.send(): the request leaves the browser
XhrSend ==
    /\ xhr.pc = "opened"
    /\ xhr' = [xhr EXCEPT !.pc = "sent", !.sends = @ + 1]
    /\ UNCHANGED <<session, limiter, now, req, arrivals, hitLog, guard>>
    /\ DbUnchanged

\* the server receives the request that was sent
LogoutArrives(r) ==
    /\ arrivals < xhr.sends
    /\ ReceiveOf(r, {<<"logout", NoBody>>})

\* the response comes in: readyState 2, 3 and then 4
XhrProgress ==
    /\ xhr.pc = "sent" /\ ~xhr.redirected
    /\ xhr.readyState \in 1..3
    /\ \E r \in Slots : req[r].route = "logout" /\ req[r].pc = "done"
    /\ xhr' = Fire(xhr, xhr.readyState + 1)
    /\ UNCHANGED <<session, limiter, now, req, arrivals, hitLog, guard>>
    /\ DbUnchanged

\* the network fails before the response is complete: readyState 4, status 0
XhrError ==
    /\ xhr.pc = "sent" /\ ~xhr.redirected
    /\ xhr.readyState \in 1..3
    /\ xhr' = [Fire(xhr, 4) EXCEPT !.failed = TRUE]
    /\ UNCHANGED <<session, limiter, now, req, arrivals, hitLog, guard>>
    /\ DbUnchanged

\* the browser has gone to '/': the home page asks GET /header
HomeAsksHeader(r) ==
    /\ xhr.redirected /\ xhr.pc = "sent"
    /\ ReceiveOf(r, {<<"header", NoBody>>})

InitClient ==
    /\ user = SeedUsers
    /\ check_ins = <<>>
    /\ mapmarkers = <<>>
    /\ \E row \in SeedUsers : session = [s \in Sids |-> SessionUser(row)]
    /\ \E spent \in {"api", "anonymous", "none"} :
         limiter = [c \in Classes |->
                      CASE c = "api" /\ spent = "api"       -> Exhausted("api")
                        [] c = "api" /\ spent = "anonymous" -> AnonymousSpent
                        [] OTHER                            -> EmptyStore]
    /\ now = 0
    /\ req = [r \in Slots |-> IdleReq]
    /\ arrivals = 0
    /\ rewrites = [id \in UserIds |-> 0]
    /\ hitLog = <<>>
    /\ guard = NoGuard
    /\ xhr = NoXhr

NextClient ==
    \/ LogoutClick
    \/ XhrOpen
    \/ XhrSend
    \/ XhrProgress
    \/ XhrError
    \/ \E r \in Slots :
          \/ LogoutArrives(r)
          \/ Logout(r)
          \/ HomeAsksHeader(r)

SpecClient == InitClient /\ [][NextClient]_vars

(***************************************************************************)
(* POST /users/check_in with dates around the two ends of the range the    *)
(* date rule accepts.  The server's clock stands ten hours after midnight, *)
(* so the date of the day is at -10 and the dates of other days are whole  *)
(* days away from it.                                                      *)
(***************************************************************************)
DateOffsets ==
    {Today.off + 24 * days : days \in {-31, -30, -29, 0, 1, 2, 3}}

DateBodies ==
    {[check_in |-> Code, date |-> DateValue(TRUE, TRUE, off), time |-> Noon] :
        off \in DateOffsets}

InitDates ==
    /\ user = SeedUsers
    /\ check_ins = <<>>
    /\ mapmarkers = <<>>
    /\ \E sess \in {NoUser} \cup {SessionUser(row) : row \in SeedUsers} :
         session = [s \in Sids |-> sess]
    /\ \E full \in {"write", "none"} :
         limiter = [c \in Classes |-> IF c = full THEN Exhausted(c) ELSE EmptyStore]
    /\ now = 0
    /\ req = [r \in Slots |-> IdleReq]
    /\ arrivals = 0
    /\ rewrites = [id \in UserIds |-> 0]
    /\ hitLog = <<>>
    /\ guard = NoGuard
    /\ xhr = NoXhr

NextDates ==
    \E r \in Slots :
       \/ ReceiveOf(r, {<<"check_in", body>> : body \in DateBodies})
       \/ CheckInGetConnection(r)
       \/ CheckInInsert(r)

SpecDates == InitDates /\ [][NextDates]_vars

(***************************************************************************)
(* The five routes of routes/users.js whose handlers answer in a callback: *)
(* login, signup, check_in, history and logout, on a session that is       *)
(* logged in until a logout ends it.  The pool, the driver, bcrypt and the *)
(* session store call each callback they were given, so a handler that is  *)
(* waiting for one goes on.                                                *)
(***************************************************************************)
AnswerKinds ==
    {<<"login", [user |-> Bob, pass |-> BobPw]>>,
     <<"login", [user |-> Bob, pass |-> JenPw]>>,
     <<"login", [user |-> Eve, pass |-> BobPw]>>,
     <<"signup", NewEve>>,
     <<"signup", [NewEve EXCEPT !.email = BobMail]>>,
     <<"check_in", [check_in |-> Code, date |-> Today, time |-> Noon]>>,
     <<"history", NoBody>>,
     <<"logout", NoBody>>}

\* Jen is logged in and no limiter has counted a request of the client
InitAnswers == InitHandlers /\ \A s \in Sids : session[s].username = Jen

\* the callbacks of the handlers of request r
Callbacks(r) ==
    \/ LoginGetConnection(r)
    \/ LoginSelectUser(r)
    \/ LoginBcryptCompare(r)
    \/ LoginShaQuery(r)
    \/ LoginBcryptHash(r)
    \/ LoginUpdatePassword(r)
    \/ Logout(r)
    \/ SignupBcryptHash(r)
    \/ SignupGetConnection(r)
    \/ SignupCheckUsername(r)
    \/ SignupCheckEmail(r)
    \/ SignupInsert(r)
    \/ CheckInGetConnection(r)
    \/ CheckInInsert(r)
    \/ HistoryGetConnection(r)
    \/ HistoryQuery(r)

NextAnswers == \E r \in Slots : ReceiveOf(r, AnswerKinds) \/ Callbacks(r)

SpecAnswers ==
    /\ InitAnswers
    /\ [][NextAnswers]_vars
    /\ \A r \in Slots : WF_vars(Callbacks(r))

(***************************************************************************)
(* Properties of the server.                                               *)
(***************************************************************************)
Done(r) == req[r].pc = "done"

StoredHash(id) == (CHOOSE row \in user : row.u_id = id).password

\* C1: a login whose password the legacy query has matched ends with 200
\* and its session set to the user it looked up, whether bcrypt.hash or the
\* UPDATE that rewrites the hash fails or not.
C1_LegacyLoginSucceeds ==
    [][\A r \in Slots :
          (req[r].shaMatch /\ ~Done(r) /\ req'[r].pc = "done")
          => /\ req'[r].status = 200
             /\ req'[r].error = ""
             /\ req'[r].sess = SessionUser(req[r].row)
             /\ session'[req[r].sid] = SessionUser(req[r].row)]_vars

\* a legacy login answered 200 whose UPDATE failed: the hash it computed is
\* not the stored one, which is still the legacy one
C1_Witness ==
    \E r \in Slots :
       /\ Done(r) /\ req[r].shaMatch /\ req[r].status = 200
       /\ req[r].hash # NoHash
       /\ ~isBcryptHash(StoredHash(req[r].row.u_id))

\* C2 (as stated): once logins have replaced a user's legacy hash, the number
\* of UPDATEs that wrote that user's password is exactly one.
C2_RewrittenExactlyOnce ==
    \A id \in UserIds :
       (/\ \E seed \in SeedUsers : seed.u_id = id /\ ~isBcryptHash(seed.password)
        /\ \E row \in user : row.u_id = id /\ isBcryptHash(row.password))
       => rewrites[id] = 1

\* C3: no step turns a stored bcrypt hash into a legacy one, and no step of
\* a login takes a user's row away.
C3_NeverDowngraded ==
    [][\A row \in user :
          isBcryptHash(row.password)
          => \E after \in user' : after.u_id = row.u_id /\ isBcryptHash(after.password)]_vars

\* a second UPDATE of a login has written over a hash that was bcrypt already
C3_Witness == \E id \in UserIds : rewrites[id] = 2 /\ isBcryptHash(StoredHash(id))

\* C4: the check-in a request stores is owned by the username of the session
\* that request came with, whatever its body held.
C4_OwnerFromSession ==
    [][\A r \in Slots :
          (req[r].pc = "insertCheckIn" /\ check_ins' # check_ins)
          => /\ req[r].sess # NoUser
             /\ check_ins' = Append(check_ins, check_ins'[Len(check_ins')])
             /\ check_ins'[Len(check_ins')].username = req[r].sess.username]_vars

\* Bob's check-in is stored under Bob
C4_Witness ==
    /\ Len(check_ins) > 0
    /\ \E r \in Slots : /\ Done(r) /\ req[r].route = "check_in" /\ req[r].status = 201
                         /\ check_ins[Len(check_ins)].username = req[r].sess.username

SchemaRoutes == {"login", "signup", "check_in", "addmarkers"}

\* the body of the request holds a field its route does not list
ExtraField(q) ==
    \/ q.route = "login"      /\ DOMAIN q.body \ {"user", "pass"} # {}
    \/ q.route = "signup"     /\ DOMAIN q.body \ {"user", "pass", "email", "given_name",
                                                  "family_name", "type"} # {}
    \/ q.route = "check_in"   /\ DOMAIN q.body \ {"check_in", "date", "time"} # {}
    \/ q.route = "addmarkers" /\ DOMAIN q.body \ {"long", "lat"} # {}

\* the stages that stand before the unexpected-field check of some route
BeforeFieldCheck == {"apiLimiter", "authLimiter", "writeLimiter", "requireAuth", "requireRole"}

\* C5 (as stated): a request to a schema-validated route with a field the
\* route does not list is answered 400.
C5_ExtraFieldAlways400 ==
    \A r \in Slots :
       (Done(r) /\ req[r].route \in SchemaRoutes /\ ExtraField(req[r]))
       => req[r].status = 400

\* C5 (amended): such a request is answered 400 by the unexpected-field
\* check, whatever its other fields hold, unless a stage that stands before
\* that check (a rate limiter, requireAuth, requireRole) has answered it.
C5_ExtraFieldRejected ==
    \A r \in Slots :
       (Done(r) /\ req[r].route \in SchemaRoutes /\ ExtraField(req[r]))
       => \/ req[r].deniedBy = "rejectUnexpectedFields" /\ req[r].status = 400
          \/ /\ req[r].deniedBy \in BeforeFieldCheck
             /\ req[r].status \in {429, 401, 403}
             /\ "rejectUnexpectedFields" \notin {req[r].stages[i] : i \in DOMAIN req[r].stages}

\* a login whose user and pass are valid is answered 400 for its extra field
C5_Witness ==
    \E r \in Slots :
       /\ Done(r) /\ req[r].route = "login" /\ req[r].status = 400
       /\ req[r].deniedBy = "rejectUnexpectedFields"
       /\ req[r].body = [user |-> Bob, pass |-> BobPw, role |-> "admin"]
       /\ loginValidation([user |-> Bob, pass |-> BobPw]) = <<>>

\* a check_in that comes with a session and names a user in its body
NamesUser(q) ==
    /\ q.route = "check_in" /\ q.sess # NoUser
    /\ (Has(q.body, "user") \/ Has(q.body, "username"))

\* C6 (as stated): a check_in from an authenticated session whose body holds
\* user or username is rejected by the unexpected-field check and stores
\* nothing.
C6_RejectedByFieldCheck ==
    \A r \in Slots :
       (req[r].pc # "idle" /\ NamesUser(req[r]))
       => /\ Done(r) /\ req[r].deniedBy = "rejectUnexpectedFields"
          /\ req[r].queries = 0

\* C6 (amended): such a check_in is rejected, with 400 by the unexpected-field
\* check unless a rate limiter has answered 429 first, and it takes no
\* connection and sends no query, so stores nothing.
C6_RejectedBeforeStore ==
    \A r \in Slots :
       (req[r].pc # "idle" /\ NamesUser(req[r]))
       => /\ Done(r)
          /\ \/ req[r].deniedBy = "rejectUnexpectedFields" /\ req[r].status = 400
             \/ req[r].deniedBy \in {"apiLimiter", "writeLimiter"} /\ req[r].status = 429
          /\ req[r].conn = "none" /\ req[r].queries = 0

\* Bob, logged in, checks in as Jen and is answered 400
C6_Witness ==
    \E r \in Slots :
       /\ Done(r) /\ NamesUser(req[r]) /\ req[r].sess.username = Bob
       /\ Has(req[r].body, "user") /\ req[r].body.user = Jen
       /\ req[r].deniedBy = "rejectUnexpectedFields" /\ check_ins = <<>>

Guards == {"requireAuth", "requireRole"}
RouteLimiters == {"authLimiter", "writeLimiter"}

StagesRun(q) == {q.stages[i] : i \in DOMAIN q.stages}

\* the handler of the request has been entered
InHandler(q) == q.pc \notin {"idle", "middleware"} /\ q.deniedBy = ""

\* the order the claim gives: rate limit, unexpected fields, validation, then
\* authentication and authorization
ClaimedRank(stage) ==
    CASE stage = "apiLimiter"             -> 0
      [] stage \in RouteLimiters          -> 1
      [] stage = "rejectUnexpectedFields" -> 2
      [] stage = "validation"             -> 3
      [] stage \in Guards                 -> 4

\* C8 (as stated): the stages a request runs come in the order rate limit,
\* unexpected-field check, validation, authentication/authorization, so a
\* guard runs only after the rate limiter of its route.
C8_LimiterBeforeGuards ==
    \A r \in Slots :
       LET st == req[r].stages IN
       /\ \A i, j \in DOMAIN st : i < j => ClaimedRank(st[i]) < ClaimedRank(st[j])
       /\ \A i \in DOMAIN st :
             st[i] \in Guards => \E j \in 1..(i - 1) : st[j] \in RouteLimiters

\* the order the routes have: the general limiter of app.js, then the guards
\* of the routes that have guards, then the route's limiter, the
\* unexpected-field check and the validation
RouteRank(stage) ==
    CASE stage = "apiLimiter"             -> 0
      [] stage = "requireAuth"            -> 1
      [] stage = "requireRole"            -> 2
      [] stage \in RouteLimiters          -> 3
      [] stage = "rejectUnexpectedFields" -> 4
      [] stage = "validation"             -> 5

\* the stages a request has behind it when its handler runs
StagesBeforeHandler(route) ==
    CASE route \in {"login", "signup"} ->
            {"apiLimiter", "authLimiter", "rejectUnexpectedFields", "validation"}
      [] route = "check_in" ->
            {"apiLimiter", "requireAuth", "writeLimiter", "rejectUnexpectedFields",
             "validation"}
      [] route = "addmarkers" ->
            {"apiLimiter", "requireAuth", "requireRole", "writeLimiter",
             "rejectUnexpectedFields", "validation"}
      [] route = "logout" -> {"apiLimiter"}

\* C8 (amended): on login and signup the stages run rate limit, unexpected
\* fields, validation, and the handler checks the credentials; on check_in and
\* addmarkers requireAuth (and requireRole) run before the route's rate
\* limiter, then unexpected fields and validation; the handler runs only
\* behind all the stages of its route.
C8_StageOrder ==
    \A r \in Slots :
       LET q == req[r]  st == q.stages IN
       q.pc # "idle" =>
       /\ \A i, j \in DOMAIN st : i < j => RouteRank(st[i]) < RouteRank(st[j])
       /\ StagesRun(q) \subseteq StagesBeforeHandler(q.route) \cup {"apiLimiter"}
       /\ InHandler(q) => StagesRun(q) = StagesBeforeHandler(q.route)
       /\ (q.route \in {"login", "signup"} /\ q.queries > 0) => "validation" \in StagesRun(q)

\* a marker is stored behind all six stages, the guards before the limiter
C8_Witness ==
    \E r \in Slots :
       /\ Done(r) /\ req[r].route = "addmarkers" /\ req[r].status = 201
       /\ req[r].stages = <<"apiLimiter", "requireAuth", "requireRole", "writeLimiter",
                            "rejectUnexpectedFields", "validation">>

DenialStatuses == {429, 400, 401, 403}

\* C9: a request a stage has denied is answered with the stage's status and
\* goes no further: it takes no connection and sends no query, and the step
\* that denies it leaves the session and the tables as they were.
C9_DenialTouchesNothing ==
    /\ [](\A r \in Slots :
            req[r].deniedBy # ""
            => /\ Done(r)
               /\ req[r].status \in DenialStatuses
               /\ req[r].stages[Len(req[r].stages)] = req[r].deniedBy
               /\ req[r].conn = "none" /\ req[r].queries = 0)
    /\ [][\A r \in Slots :
            (req'[r] # req[r] /\ req'[r].deniedBy # "")
            => UNCHANGED <<user, check_ins, mapmarkers, session>>]_vars

\* Bob, logged in as a user, is denied addmarkers with 403 while the tables
\* and his session stay
C9_Witness ==
    \E r \in Slots :
       /\ Done(r) /\ req[r].deniedBy = "requireRole" /\ req[r].status = 403
       /\ session[req[r].sid] = req[r].sess /\ mapmarkers = <<>>

(***************************************************************************)
(* Properties of the rate limiter.                                         *)
(***************************************************************************)
\* the start of the window the i-th request of the client falls in: a request
\* that comes when the window before it has elapsed starts a window
RECURSIVE WindowStart(_)
WindowStart(i) ==
    IF i = 1 THEN hitLog[1].at
    ELSE LET before == WindowStart(i - 1) IN
         IF hitLog[i].at >= before + Options("auth").windowMs THEN hitLog[i].at
         ELSE before

\* which request of its window the i-th request is
RankInWindow(i) == Cardinality({j \in 1..i : WindowStart(j) = WindowStart(i)})

\* C7: with the limit N of authLimiter, the first N requests of a client in a
\* window are not denied by it, every further one in that window is answered
\* 429 with a positive retryAfter, and a request that comes when the window
\* has elapsed is let through again.
C7_WindowOfN ==
    \A i \in DOMAIN hitLog :
       /\ hitLog[i].limitedBy = "authLimiter" <=> RankInWindow(i) > AuthMax
       /\ hitLog[i].limitedBy = "authLimiter"
             => hitLog[i].status = 429 /\ hitLog[i].retryAfter > 0
       /\ (i > 1 /\ hitLog[i].at >= WindowStart(i - 1) + Options("auth").windowMs)
             => hitLog[i].status # 429

\* five requests let through, the sixth denied, and one let through again once
\* the window has elapsed
C7_Witness ==
    \E i \in DOMAIN hitLog :
       /\ i > AuthMax + 1
       /\ \A j \in 1..AuthMax : hitLog[j].status # 429
       /\ hitLog[AuthMax + 1].status = 429 /\ hitLog[AuthMax + 1].at = hitLog[1].at
       /\ hitLog[i].status # 429

(***************************************************************************)
(* Properties of requireRole.                                              *)
(***************************************************************************)
\* C10: requireRole answers 401 exactly when the session holds no user, 403
\* exactly when it holds a user whose role is not among the allowed ones, and
\* lets the request pass exactly when the role is among them; the user table
\* has no part in the answer.
C10_RoleDecision ==
    guard.answer # -1 =>
       /\ guard.answer \in {401, 403, 0}
       /\ guard.answer = 401 <=> guard.sess = NoUser
       /\ guard.answer = 403
             <=> (guard.sess # NoUser /\ guard.sess.user_type \notin guard.allowedRoles)
       /\ guard.answer = 0
             <=> (guard.sess # NoUser /\ guard.sess.user_type \in guard.allowedRoles)

\* a session whose role the table has since raised to admin is still denied
\* as the user it was when it logged in
C10_Witness ==
    /\ guard.answer = 403 /\ guard.sess.user_type = "user"
    /\ guard.allowedRoles = {"manager", "admin"}
    /\ \E row \in user : row.u_id = guard.sess.u_id /\ row.user_type = "admin"

(***************************************************************************)
(* Properties of the roles, the sessions and the responses.                *)
(***************************************************************************)
\* C11: a step stores a marker only for an addmarkers request whose session
\* holds a user of role manager or admin and which requireRole has passed;
\* an addmarkers request with no session user or with role user is answered
\* by the middleware and sends no query.
C11_MarkersByManagers ==
    /\ [][mapmarkers' # mapmarkers
            => \E r \in Slots :
                  /\ req[r].route = "addmarkers" /\ req[r].pc = "insertMarker"
                  /\ req'[r].status = 201
                  /\ "requireRole" \in StagesRun(req[r])
                  /\ req[r].sess # NoUser
                  /\ req[r].sess.user_type \in {"manager", "admin"}
                  /\ Len(mapmarkers') = Len(mapmarkers) + 1]_vars
    /\ [](\A r \in Slots :
            (req[r].route = "addmarkers"
               /\ (req[r].sess = NoUser \/ req[r].sess.user_type = "user"))
            => /\ Done(r) /\ req[r].status \in {401, 403, 429}
               /\ req[r].conn = "none" /\ req[r].queries = 0)

\* Jen, a manager, has added a marker
C11_Witness ==
    \E r \in Slots :
       /\ Done(r) /\ req[r].route = "addmarkers" /\ req[r].status = 201
       /\ req[r].sess.user_type = "manager" /\ Len(mapmarkers) = 1

\* the password the hash was computed from is p
HashOf(h, p) == h.scheme \in {"sha256", "$2b"} /\ h.digest = p

\* C12: a session comes to hold a user snapshot only in a step of a login
\* request on that session, whose submitted password is the one the stored
\* hash of that user was computed from, and the snapshot's id, username,
\* email and role are those of that user's record.
C12_SessionOnlyByLogin ==
    [][\A sid \in Sids :
          (session'[sid] # session[sid] /\ session'[sid] # NoUser)
          => \E r \in Slots, u \in user :
                /\ req[r].route = "login" /\ req[r].sid = sid
                /\ ~Done(r) /\ req'[r].pc = "done" /\ req'[r].status = 200
                /\ u.username = req[r].body.user
                /\ HashOf(u.password, req[r].body.pass)
                /\ session'[sid].u_id = u.u_id
                /\ session'[sid].username = u.username
                /\ session'[sid].email_address = u.email_address
                /\ session'[sid].user_type = u.user_type]_vars

\* the session holds Jen after her login was answered 200
C12_Witness ==
    \E r \in Slots :
       /\ Done(r) /\ req[r].route = "login" /\ req[r].status = 200
       /\ req[r].body.user = Jen
       /\ session[req[r].sid] # NoUser /\ session[req[r].sid].username = Jen

\* what the login handler copies out of the row it read
SnapshotFields == {"u_id", "given_name", "family_name", "username", "email_address",
                   "user_type"}

\* C13: the body of a login's success response and the snapshot a session
\* holds carry no password field and nothing but the success flag, the
\* username and the role (the response), or the six fields of the row other
\* than its password (the snapshot); an error response carries no body.
C13_NoHashLeaves ==
    /\ \A r \in Slots :
          (req[r].route = "login" /\ Done(r))
          => /\ "password" \notin DOMAIN req[r].reply
             /\ DOMAIN req[r].sess = SnapshotFields
             /\ IF req[r].status = 200
                THEN /\ DOMAIN req[r].reply = {"success", "username", "user_type"}
                     /\ req[r].reply.username = req[r].row.username
                     /\ req[r].reply.user_type = req[r].row.user_type
                     /\ \A f \in SnapshotFields : req[r].sess[f] = req[r].row[f]
                ELSE req[r].reply = NoReply
    /\ \A sid \in Sids : DOMAIN session[sid] = SnapshotFields

\* a login answered 200 from a row that holds a password hash
C13_Witness ==
    \E r \in Slots :
       /\ Done(r) /\ req[r].route = "login" /\ req[r].status = 200
       /\ req[r].reply # NoReply /\ session[req[r].sid] = req[r].sess
       /\ req[r].row.password # NoHash

(***************************************************************************)
(* Properties of a session that was logged in.  Its session holds no user  *)
(* only when a logout has emptied it and no login has filled it since.     *)
(***************************************************************************)
ProtectedRoutes == {"check_in", "history", "username", "email", "mapmarkers", "addmarkers"}

\* the request in slot r arrives in this step
Arrives(r) == Free(r) /\ req'[r] # req[r] /\ req'[r].pc # "idle"

\* a logout in slot r is answered 200 in this step
LogsOut(r) ==
    /\ req[r].route = "logout" /\ ~Done(r)
    /\ req'[r].pc = "done" /\ req'[r].status = 200

\* C14 (as stated): a logout answered 200 leaves the session without a user,
\* and every request that arrives on the session while it holds none is
\* answered 401 on a protected route and "out" on /header.
C14_LoggedOutAlways401 ==
    [][\A r \in Slots :
          /\ LogsOut(r) => session'[req[r].sid] = NoUser
          /\ (Arrives(r) /\ session[req'[r].sid] = NoUser)
             => /\ req'[r].route \in ProtectedRoutes => req'[r].status = 401
                /\ req'[r].route = "header"
                      => req'[r].reply = [text |-> <<"o","u","t">>]]_vars

\* C14 (amended): such a request never reaches a handler of a protected
\* route: it is answered 401 by the authentication check, or 429 when the
\* general rate limiter, which runs first, has denied it; /header answers
\* "out" unless that limiter has denied the request.
C14_LoggedOutDenied ==
    [][\A r \in Slots :
          /\ LogsOut(r) => session'[req[r].sid] = NoUser
          /\ (Arrives(r) /\ session[req'[r].sid] = NoUser)
             => LET q == req'[r] IN
                /\ q.route \in ProtectedRoutes
                      => /\ q.pc = "done" /\ q.conn = "none" /\ q.queries = 0
                         /\ \/ q.status = 401 /\ q.deniedBy = "requireAuth"
                            \/ q.status = 429 /\ q.deniedBy = "apiLimiter"
                /\ q.route = "header"
                      => \/ q.status = 200 /\ q.reply = [text |-> <<"o","u","t">>]
                         \/ q.status = 429 /\ q.deniedBy = "apiLimiter"]_vars

\* the session has been logged out and a request for the history on it has
\* been answered 401
C14_Witness ==
    \E r \in Slots :
       /\ Done(r) /\ req[r].route = "history" /\ req[r].status = 401
       /\ req[r].sess = NoUser /\ session[req[r].sid] = NoUser

(***************************************************************************)
(* The three rate limiters side by side.                                   *)
(***************************************************************************)
AuthRoutes == {"login", "signup"}

\* the hits a store has counted for a key in the window that is running
HitsOf(store, key) ==
    IF key \in DOMAIN store /\ store[key].resetTime > now THEN store[key].totalHits ELSE 0

\* two stores differ at most in the entry of key
SameBut(old, new, key) ==
    /\ DOMAIN old \subseteq DOMAIN new
    /\ DOMAIN new \subseteq DOMAIN old \cup {key}
    /\ \A k \in DOMAIN old \ {key} : new[k] = old[k]

\* the answer the request in slot r gets in this step, had no request been
\* counted by authLimiter before it
WithoutAuthHits(r) ==
    LET q == req'[r] IN
    syncHandler(RunPipeline(Incoming(q.route, q.sid, q.ip, q.body),
                            [limiter EXCEPT !["auth"] = EmptyStore], now).q)

Signed(row) == row.u_id \notin {seed.u_id : seed \in SeedUsers}

\* the login in slot r names an account a signup has stored and gives the
\* password that signup was sent
SamePlaintext(r) ==
    /\ req[r].route = "login"
    /\ Has(req[r].body, "user") /\ Has(req[r].body, "pass")
    /\ \E u \in user, b \in SignupBodies :
          /\ Signed(u) /\ u.username = b.user
          /\ req[r].body.user = b.user /\ req[r].body.pass = b.pass

\* C17: what a signup stores as the password is the bcrypt hash of the
\* plaintext it was sent, never the plaintext; a login that names the account
\* with that plaintext once the row is stored finds the row and ends with 200
\* and its session set to that account, unless the database or bcrypt
\* reports an error (500); it is never answered 401.
C17_SignupThenLogin ==
    /\ [](\A u \in user : Signed(u) =>
             \E b \in SignupBodies, salt \in Salts :
                /\ u.username = b.user
                /\ u.password = bcryptHash(b.pass, BCRYPT_ROUNDS, salt)
                /\ u.password # Plain(b.pass))
    /\ [][\A r \in Slots :
             (SamePlaintext(r) /\ req[r].pc \in {"handler", "selectUser", "bcryptCompare"}
                /\ req'[r] # req[r])
             => LET q == req'[r] IN
                \/ q.pc = "selectUser"
                \/ /\ q.pc = "bcryptCompare"
                   /\ Signed(q.row) /\ q.row.username = q.body.user
                \/ /\ q.pc = "done" /\ q.status = 200
                   /\ session'[q.sid] = SessionUser(req[r].row)
                   /\ session'[q.sid].username = q.body.user
                \/ q.pc = "done" /\ q.status = 500 /\ q.error = "Server error"]_vars

\* Eve has signed up and then logged in with the password she chose
C17_Witness ==
    \E r \in Slots, u \in user :
       /\ Signed(u) /\ u.username = NewEve.user
       /\ Done(r) /\ req[r].route = "login" /\ req[r].status = 200
       /\ req[r].body.pass = NewEve.pass
       /\ req[r].row = u /\ session[req[r].sid] = SessionUser(u)

\* C18 (as stated): no two rows of the user table share a username or share
\* an email address, and a signup that has been answered 201 has added the
\* only row with its username and its email address.
C18_UsernamesUnique ==
    /\ \A a, b \in user :
          (a.username = b.username \/ a.email_address = b.email_address) => a = b
    /\ \A r \in Slots :
          (Done(r) /\ req[r].route = "signup" /\ req[r].status = 201)
          => Cardinality({u \in user : \/ u.username = req[r].body.user
                                       \/ u.email_address = req[r].body.email}) = 1

(***************************************************************************)
(* The error list of a request that validation has answered.               *)
(***************************************************************************)
\* errors.array() of the request: its body is the one validation has read
DetailsOf(q) == ValidationOf(q.route, q.body)

\* C19 (as stated): the details of a request answered 400 by validation
\* hold one entry for each field that fails and no second entry for any.
C19_OneEntryPerField ==
    \A r \in Slots :
       (Done(r) /\ req[r].deniedBy = "validation")
       => LET details == DetailsOf(req[r]) IN
          /\ details # <<>>
          /\ \A i, j \in DOMAIN details :
                details[i].field = details[j].field => i = j

(***************************************************************************)
(* Connections of the pool.                                                *)
(***************************************************************************)
\* the places of a handler between getConnection's callback and the callback
\* that releases the connection
HoldingPcs ==
    {"selectUser", "bcryptCompare", "shaQuery", "bcryptHash", "updatePassword",
     "checkUsername", "checkEmail", "insertUser", "insertCheckIn", "insertMarker",
     "selectHistory", "selectMarkers"}

\* C20: a request that has been answered holds no connection, a connection
\* is held only between getConnection and the callback that answers, that
\* callback releases it in the step in which it answers, nothing is released
\* that is not held, and a released connection is not touched again.
C20_ReleasedOnce ==
    /\ [](\A r \in Slots :
             /\ req[r].conn # "misused"
             /\ Done(r) => req[r].conn \in {"none", "released"}
             /\ req[r].conn = "held" <=> req[r].pc \in HoldingPcs
             /\ req[r].queries > 0 => req[r].conn # "none")
    /\ [][\A r \in Slots :
             /\ (req[r].conn = "held" /\ req'[r] # req[r])
                => /\ req'[r].conn \in {"held", "released"}
                   /\ req'[r].conn = "released" <=> req'[r].pc = "done"
             /\ req[r].conn = "released" => (Arrives(r) \/ req'[r] = req[r])]_vars

\* a signup refused for its email address, after two queries, has released
\* the connection it took
C20_Witness ==
    \E r \in Slots :
       /\ Done(r) /\ req[r].conn = "released"
       /\ req[r].route = "signup" /\ req[r].status = 409
       /\ req[r].error = "Email already registered" /\ req[r].queries = 2

(***************************************************************************)
(* What a client sees of a login that its credentials have failed.         *)
(***************************************************************************)
\* the status and the body of the response
Response(q) ==
    [status |-> q.status, error |-> q.error, reply |-> q.reply, retryAfter |-> q.retryAfter]

\* the handler has answered the login without a server error
LoginJudged(q) ==
    q.pc = "done" /\ q.route = "login" /\ q.deniedBy = "" /\ q.status # 500

\* the lookup by username found no row
UnknownUser(q) == LoginJudged(q) /\ q.row = NoRow
\* the row the lookup found holds the hash of another password
WrongPassword(q) == LoginJudged(q) /\ q.row # NoRow /\ q.row.password.digest # q.body.pass

\* C21: a login for a username that no row has and a login with a wrong
\* password for a username that a row has, its hash legacy or bcrypt, get
\* the same status and the same body: 401 "Invalid username or password".
C21_GenericFailure ==
    /\ \A r \in Slots :
          (UnknownUser(req[r]) \/ WrongPassword(req[r]))
          => Response(req[r]) = [status |-> 401, error |-> "Invalid username or password",
                                 reply |-> NoReply, retryAfter |-> 0]
    /\ \A r1, r2 \in Slots :
          (UnknownUser(req[r1]) /\ WrongPassword(req[r2]))
          => Response(req[r1]) = Response(req[r2])

\* one login for an unknown username and one with a wrong password for a
\* known one have both been answered
C21_Witness ==
    \E r1, r2 \in Slots :
       /\ UnknownUser(req[r1]) /\ req[r1].queries = 1
       /\ WrongPassword(req[r2]) /\ req[r2].queries = 2

\* a wrong password for a user whose hash a login has rewritten with bcrypt
C21_BcryptWitness ==
    \E r \in Slots :
       WrongPassword(req[r]) /\ isBcryptHash(req[r].row.password) /\ req[r].status = 401

(***************************************************************************)
(* The rows POST /users/history answers with.                              *)
(***************************************************************************)
\* how often x occurs in the sequence rows
Count(rows, x) == Cardinality({i \in DOMAIN rows : rows[i] = x})

\* the columns of a stored row that the history selects
Selected(row) ==
    [check_in_code |-> row.check_in_code, date_ |-> row.date_, time_ |-> row.time_]

\* C22: the rows a history request is answered with are the stored
\* check-ins whose owner is the username of the request's session, each as
\* often as it is stored and no other row, and no row comes after an older
\* one: dates descend, and times descend within a date.
C22_OwnHistoryNewestFirst ==
    [][\A r \in Slots :
          (req[r].pc = "selectHistory" /\ req'[r].pc = "done" /\ req'[r].status = 200)
          => LET rows == req'[r].reply.rows
                 mine == SelectSeq(check_ins,
                                   LAMBDA row : row.username = req[r].sess.username)
             IN  /\ Len(rows) = Len(mine)
                 /\ \A i \in DOMAIN mine :
                       Count(rows, Selected(mine[i]))
                          = Cardinality({j \in DOMAIN mine : Selected(mine[j]) = Selected(mine[i])})
                 /\ \A i, j \in DOMAIN rows :
                       i < j => \/ rows[i].date_.off > rows[j].date_.off
                                \/ /\ rows[i].date_.off = rows[j].date_.off
                                   /\ SecondsOf(rows[i].time_) >= SecondsOf(rows[j].time_)]_vars

\* Bob has been answered with his two check-ins, the newer one first, while
\* the table holds one of Jen's that is newer than both
C22_Witness ==
    \E r \in Slots :
       /\ Done(r) /\ req[r].route = "history" /\ req[r].status = 200
       /\ req[r].sess.username = Bob
       /\ Len(check_ins) = 3
       /\ check_ins[1].username = Bob /\ check_ins[1].date_ = LastWeek
       /\ check_ins[2].username = Jen /\ check_ins[2].date_ = Today
       /\ check_ins[2].time_ = Noon
       /\ check_ins[3].username = Bob /\ check_ins[3].date_ = Today
       /\ check_ins[3].time_ = Dawn
       /\ req[r].reply.rows = <<Selected(check_ins[3]), Selected(check_ins[1])>>

(***************************************************************************)
(* The routes that read for a session, asked without one.                  *)
(***************************************************************************)
SessionReads == {"username", "email", "mapmarkers", "history"}

\* a request to such a route that came with a session holding no user
ReadWithoutUser(q) == q.pc # "idle" /\ q.route \in SessionReads /\ q.sess = NoUser

\* the handler of the request has not run: no connection, no query, no body
NothingRead(q) ==
    /\ q.pc = "done" /\ q.conn = "none" /\ q.queries = 0 /\ q.reply = NoReply
    /\ q.status \notin {200, 500}

\* C23 (as stated): a request to GET /username, /email, /mapmarkers or POST
\* /users/history whose session holds no user is answered 401, its handler
\* has not run and it has been sent no data.
C23_ReadsAlways401 ==
    \A r \in Slots :
       ReadWithoutUser(req[r]) => NothingRead(req[r]) /\ req[r].status = 401

\* C23 (amended): such a request is answered 401 "Authentication required"
\* by the authentication check, or 429 when the general rate limiter, which
\* runs before it, has denied the request; either way its handler has not
\* run, it has been sent no data and it has not failed with a server error.
C23_ReadsRefused ==
    \A r \in Slots :
       ReadWithoutUser(req[r])
       => /\ NothingRead(req[r])
          /\ \/ /\ req[r].status = 401 /\ req[r].deniedBy = "requireAuth"
                /\ req[r].error = "Authentication required"
             \/ /\ req[r].status = 429 /\ req[r].deniedBy = "apiLimiter"

\* GET /mapmarkers on a session that has logged out has been answered 401
C23_Witness ==
    \E r \in Slots :
       /\ ReadWithoutUser(req[r]) /\ req[r].route = "mapmarkers"
       /\ req[r].status = 401 /\ req[r].deniedBy = "requireAuth"

(***************************************************************************)
(* The browser's logout().                                                 *)
(***************************************************************************)
\* the server has answered the POST /users/logout
LogoutAnswered == \E r \in Slots : req[r].route = "logout" /\ req[r].pc = "done"

InTheFuture(d) == d.off > Today.off
\* the date is a day more than 30 days before the day of the server's clock
Over30DaysOld(d) == d.off < Today.off - 30 * 24
\* the date is past the instant one day ahead of the server's clock
OverOneDayAhead(d) == d.off > 1 * 24

\* the check-in is refused before its handler and has stored nothing
CheckInRefused(q) ==
    /\ q.pc = "done" /\ q.conn = "none" /\ q.queries = 0
    /\ q.deniedBy # ""

C26_SignupRoles ==
    /\ [](\A row \in user :
             /\ row.user_type \in {"user", "manager", "admin"}
             /\ Signed(row) => row.user_type \in {"user", "manager"})
    /\ [](\A r \in Slots :
             (/\ req[r].route = "signup" /\ req[r].pc # "idle" /\ Has(req[r].body, "type")
              /\ req[r].body.type \notin {"user", "manager"})
             => /\ req[r].pc = "done" /\ req[r].deniedBy # ""
                /\ req[r].status \in {400, 429}
                /\ req[r].conn = "none" /\ req[r].queries = 0)
    /\ [][/\ (\A row \in user : \E after \in user' :
                  after.u_id = row.u_id /\ after.user_type = row.user_type)
           /\ \A added \in user' :
                 (added.u_id \notin {row.u_id : row \in user})
                 => /\ added.user_type \in {"user", "manager"}
                    /\ \E r \in Slots :
                          /\ req[r].route = "signup" /\ req[r].pc = "insertUser"
                          /\ req'[r].pc = "done" /\ req'[r].status = 201
                          /\ added.user_type = req[r].body.type]_vars

\* a signup asking for the admin role has been answered 400 by validation
\* and the table holds an account that a signup has stored
C26_Witness ==
    /\ \E r \in Slots :
          /\ req[r].route = "signup" /\ req[r].pc = "done"
          /\ req[r].body.type = "admin"
          /\ req[r].status = 400 /\ req[r].deniedBy = "validation"
    /\ \E row \in user : Signed(row) /\ row.user_type = "user"

(***************************************************************************)
(* Two logins of one legacy user at the same time.                         *)
(***************************************************************************)
\* a login with the password of the row it looked up, whose hash was legacy
\* at the lookup, answered by the handler without a server error
LegacyLoginJudged(q) ==
    /\ LoginJudged(q)
    /\ q.row # NoRow /\ ~isBcryptHash(q.row.password)
    /\ q.row.password = SHA2(q.body.pass)

\* C27 (as stated): when two logins for the same legacy-hash user, both with
\* the correct password, are interleaved in any order, both are answered 200.
C27_BothLegacyLoginsSucceed ==
    \A r1, r2 \in Slots :
       (/\ r1 # r2
        /\ LegacyLoginJudged(req[r1]) /\ LegacyLoginJudged(req[r2])
        /\ req[r1].row.u_id = req[r2].row.u_id)
       => req[r1].status = 200 /\ req[r2].status = 200

(***************************************************************************)
(* One response to a request.                                              *)
(***************************************************************************)
AnsweredRoutes == {"login", "signup", "check_in", "history", "logout"}

\* C28: a request to login, signup, check_in, history or logout has had no
\* response sent while it is in the middleware or in its handler and exactly
\* one once it is done; a request that is done changes no more, until the
\* next request to arrive takes its place; and a request that has come in is
\* done in the end, whichever way its callbacks turn out.
C28_AnsweredExactlyOnce ==
    /\ [](\A r \in Slots :
             req[r].route \in AnsweredRoutes
             => /\ req[r].sent = (IF req[r].pc = "done" THEN 1 ELSE 0)
                /\ req[r].pc = "done" => req[r].status # 0)
    /\ [][\A r \in Slots :
            (req[r].pc = "done" /\ req'[r] # req[r])
            => arrivals' = arrivals + 1 /\ req'[r].sent <= 1]_vars
    /\ \A r \in Slots :
          (req[r].pc \notin {"idle", "done"}) ~> (req[r].pc = "done" /\ req[r].sent = 1)

\* a signup refused as a duplicate and a logout whose session could not be
\* destroyed have each had their one response
C28_Witness ==
    \E r1, r2 \in Slots :
       /\ req[r1].route = "signup" /\ req[r1].pc = "done"
       /\ req[r1].status = 409 /\ req[r1].sent = 1
       /\ req[r2].route = "logout" /\ req[r2].pc = "done"
       /\ req[r2].status = 500 /\ req[r2].sent = 1

(***************************************************************************)
(* What a login does to the session.                                       *)
(***************************************************************************)
\* a step of login request r: its arrival, or one of its callbacks
LoginStep(r) ==
    /\ req'[r] # req[r]
    /\ req'[r].route = "login"
    /\ req[r].pc \in {"idle", "done"} \/ req[r].route = "login"

\* the step answers login request r
LoginAnswered(r) == LoginStep(r) /\ req'[r].pc = "done"

\* C29: a step of a login that does not answer 200 leaves every session as
\* it was, logged in as the same user with the same snapshot or anonymous;
\* a login is answered 400, 401, 429 or 500 when it has failed; and the step
\* that answers 200 writes into the session of the request, and no other,
\* the six fields of the row the login read for the submitted username,
\* whose password the login has verified.
C29_FailedLoginKeepsSession ==
    [][\A r \in Slots :
          /\ (LoginStep(r) /\ ~(LoginAnswered(r) /\ req'[r].status = 200))
             => session' = session
          /\ LoginAnswered(r) => req'[r].status \in {200, 400, 401, 429, 500}
          /\ (LoginAnswered(r) /\ req'[r].status = 200)
             => /\ session' = [session EXCEPT ![req'[r].sid] = SessionUser(req'[r].row)]
                /\ req'[r].row.username = req'[r].body.user
                /\ \E u \in user : SessionUser(u) = SessionUser(req'[r].row)
                /\ \/ req'[r].shaMatch
                   \/ /\ isBcryptHash(req'[r].row.password)
                      /\ req'[r].row.password.digest = req'[r].body.pass]_vars

\* Jen's session has had a login with a wrong password answered 401 and a
\* login without a username answered 400, and it still holds Jen's snapshot
C29_Witness ==
    \E r1, r2 \in Slots :
       /\ req[r1].route = "login" /\ req[r1].pc = "done" /\ req[r1].status = 401
       /\ req[r2].route = "login" /\ req[r2].pc = "done" /\ req[r2].status = 400
       /\ req[r1].sid = req[r2].sid
       /\ req[r1].sess.username = Jen /\ req[r2].sess.username = Jen
       /\ session[req[r1].sid] = SessionUser(CHOOSE row \in SeedUsers : row.username = Jen)

(***************************************************************************)
(* The general limiter and one client address.                             *)
(***************************************************************************)
\* the keys getClientKey gives the requests of one address: one for the
\* sessions that are not logged in and one for each user
KeysOfAddress(ip) ==
    {getClientKey(ip, NoUser)} \cup {getClientKey(ip, SessionUser(row)) : row \in user}

\* the requests a limiter has let through under a key in the running window
LetThrough(class, key) ==
    IF key \in DOMAIN limiter[class] /\ limiter[class][key].resetTime > now
    THEN IF limiter[class][key].totalHits > Options(class).max
         THEN Options(class).max ELSE limiter[class][key].totalHits
    ELSE 0

RECURSIVE LetThroughAll(_, _)
LetThroughAll(class, keys) ==
    IF keys = {} THEN 0
    ELSE LET key == CHOOSE k \in keys : TRUE
         IN  LetThrough(class, key) + LetThroughAll(class, keys \ {key})

\* C30 (as stated): within one window the general limiter lets through at
\* most 100 requests of one client address, whatever logins and logouts the
\* client performs during the window.
C30_AddressBoundedByApiMax ==
    \A ip \in Ips : LetThroughAll("api", KeysOfAddress(ip)) <= ApiMax

====
